---- MODULE Spec2Model ----
(***************************************************************************)
(* A model of MBEL (makkiattooo/MBEL): the lexer, the parser with its      *)
(* annotation capture and error recovery, the compiler, the compiled logic  *)
(* block, the resolver Runtime.Get / RuntimeBlock.ResolveWithLang, the two  *)
(* interpolation passes and the plural engine.                              *)
(*                                                                          *)
(* Go strings are TLA+ strings, handled with Len, SubSeq and \o only, so    *)
(* that formatting (strconv.Itoa, %v, html.EscapeString) and the regular    *)
(* expression scans are computed character by character as the code does.   *)
(***************************************************************************)
EXTENDS Integers, Sequences, FiniteSets, TLC

VARIABLES
    src,       \* the source the runtime was compiled from (never written after Init)
    rt,        \* the Runtime: Data, Terms, Language, escapeHTML
    call,      \* the call in progress: its operation and inputs
    resolved,  \* the template a Get call handed to interpolate
    ret,       \* the value the call returned
    peer,      \* a second Runtime built from the same compiled table
    lexer,     \* the Lexer: input, position, readPosition, ch, line, column
    parser,    \* the Parser with the Program it is building
    manager,   \* the Manager: its lock, its runtimes by language, its default
    procs      \* the goroutines around it: where each is and what it holds

vars == <<src, rt, call, resolved, ret, peer, lexer, parser, manager, procs>>

\* The front end's part of the state and the second runtime.
frontEnd == <<peer, lexer, parser>>

-----------------------------------------------------------------------------
(* Bounds of the model. *)

\* Most cases in one source logic block.
MaxCases == 3
\* Most parts (literal text, placeholder, term reference) in one template.
MaxParts == 3
\* Largest integer passed to the resolver; the smallest is -MinNeg.
MaxArg == 22
MinNeg == 2
\* Largest integer passed to the plural engine; the smallest is -PluralNeg.
PluralMax == 122
PluralNeg == 25

-----------------------------------------------------------------------------
(* Strings and characters. *)

CharAt(s, i) == IF i >= 1 /\ i <= Len(s) THEN SubSeq(s, i, i) ELSE ""

Chars(s) == {SubSeq(s, i, i) : i \in 1..Len(s)}

LowerLetters == "abcdefghijklmnopqrstuvwxyz"
UpperLetters == "ABCDEFGHIJKLMNOPQRSTUVWXYZ"
Digits == "0123456789"

\* Position of one-character string c in s, 0 when absent.
IndexOf(c, s) ==
    IF c \in Chars(s) THEN CHOOSE i \in 1..Len(s) : SubSeq(s, i, i) = c ELSE 0

\* strings.ToLower on ASCII text.
RECURSIVE ToLower(_)
ToLower(s) ==
    IF s = "" THEN ""
    ELSE LET c == SubSeq(s, 1, 1)
             k == IndexOf(c, UpperLetters)
         IN  (IF k > 0 THEN SubSeq(LowerLetters, k, k) ELSE c)
                 \o ToLower(SubSeq(s, 2, Len(s)))

\* strconv.Itoa / fmt %d: the decimal digits of n, with a leading minus sign.
RECURSIVE NatToStr(_)
NatToStr(n) ==
    IF n < 10 THEN SubSeq(Digits, n + 1, n + 1)
    ELSE NatToStr(n \div 10) \o SubSeq(Digits, (n % 10) + 1, (n % 10) + 1)

Itoa(n) == IF n < 0 THEN "-" \o NatToStr(-n) ELSE NatToStr(n)

\* Go's % on int: the remainder has the sign of the dividend.
GoMod(a, b) == IF a >= 0 THEN a % b ELSE -((-a) % b)

\* html.EscapeString: the five characters it rewrites.
EscapeChar(c) ==
    CASE c = "&"  -> "&amp;"
      [] c = "'"  -> "&#39;"
      [] c = "<"  -> "&lt;"
      [] c = ">"  -> "&gt;"
      [] c = "\"" -> "&#34;"
      [] OTHER    -> c

RECURSIVE EscapeString(_)
EscapeString(s) ==
    IF s = "" THEN ""
    ELSE EscapeChar(SubSeq(s, 1, 1)) \o EscapeString(SubSeq(s, 2, Len(s)))

-----------------------------------------------------------------------------
(* Go interface{} values: a dynamic type tag and the payload.               *)
(* A float64 is modelled in halves: [t |-> "float64", n |-> h] is h/2.      *)
(* A bag (mbel.Vars or map[string]interface{}) carries a function m from    *)
(* its keys to scalar values.                                               *)

Nil        == [t |-> "nil",     s |-> "", n |-> 0]
StrV(x)    == [t |-> "string",  s |-> x,  n |-> 0]
IntV(i)    == [t |-> "int",     s |-> "", n |-> i]
Int64V(i)  == [t |-> "int64",   s |-> "", n |-> i]
FloatV(h)  == [t |-> "float64", s |-> "", n |-> h]
BoolV(b)   == [t |-> "bool",    s |-> IF b THEN "true" ELSE "false", n |-> 0]
VarsV(f)   == [t |-> "Vars",    s |-> "", n |-> 0, m |-> f]
MapV(f)    == [t |-> "map",     s |-> "", n |-> 0, m |-> f]

IsBag(v) == v.t \in {"Vars", "map"}

\* int(v) of a float64: truncation toward zero.
TruncHalf(h) == IF h >= 0 THEN h \div 2 ELSE -((-h) \div 2)

\* fmt.Sprintf("%v", v) of a scalar value.
FormatV(v) ==
    CASE v.t = "string"  -> v.s
      [] v.t = "int"     -> Itoa(v.n)
      [] v.t = "int64"   -> Itoa(v.n)
      [] v.t = "float64" ->
            IF v.n % 2 = 0 THEN Itoa(TruncHalf(v.n))
            ELSE (IF v.n < 0 THEN "-" ELSE "")
                    \o NatToStr((IF v.n < 0 THEN -v.n ELSE v.n) \div 2) \o ".5"
      [] v.t = "bool"    -> v.s
      [] v.t = "nil"     -> "<nil>"
      [] OTHER           -> "map[]"

-----------------------------------------------------------------------------
(* The plural engine. *)

\* The registry: language code -> the name of its rule function.
PluralRules ==
    [en |-> "English", de |-> "English", nl |-> "English", sv |-> "English",
     da |-> "English", no |-> "English", nb |-> "English", nn |-> "English",
     fr |-> "French",  es |-> "English", it |-> "English", pt |-> "English",
     pl |-> "Polish",  ru |-> "Russian", uk |-> "Russian", cs |-> "Czech",
     sk |-> "Czech",   hr |-> "Russian", sr |-> "Russian", be |-> "Russian",
     ro |-> "Romanian", lt |-> "Lithuanian",
     zh |-> "Asian",   ja |-> "Asian",   ko |-> "Asian",   vi |-> "Asian",
     th |-> "Asian",   id |-> "Asian",   ms |-> "Asian",
     ar |-> "Arabic",  he |-> "English",
     tr |-> "English", hu |-> "English", fi |-> "English"]

pluralEnglish(n) == IF n = 1 THEN "one" ELSE "other"

pluralFrench(n) == IF n = 0 \/ n = 1 THEN "one" ELSE "other"

\* Mutant of pluralPolish: the exclusion of 12..14 is dropped.
pluralPolishNoTeens(n) ==
    LET mod10 == GoMod(n, 10)
    IN  IF n = 1 THEN "one"
        ELSE IF mod10 >= 2 /\ mod10 <= 4 THEN "few"
        ELSE "many"

pluralPolish(n) ==
    LET mod10  == GoMod(n, 10)
        mod100 == GoMod(n, 100)
    IN  IF n = 1 THEN "one"
        ELSE IF mod10 >= 2 /\ mod10 <= 4 /\ ~(mod100 >= 12 /\ mod100 <= 14)
             THEN "few"
        ELSE "many"

pluralRussian(n) ==
    LET mod10  == GoMod(n, 10)
        mod100 == GoMod(n, 100)
    IN  IF mod10 = 1 /\ mod100 # 11 THEN "one"
        ELSE IF mod10 >= 2 /\ mod10 <= 4 /\ ~(mod100 >= 12 /\ mod100 <= 14)
             THEN "few"
        ELSE "many"

pluralCzech(n) ==
    IF n = 1 THEN "one"
    ELSE IF n >= 2 /\ n <= 4 THEN "few"
    ELSE "other"

pluralRomanian(n) ==
    IF n = 1 THEN "one"
    ELSE IF n = 0 \/ (GoMod(n, 100) >= 1 /\ GoMod(n, 100) <= 19) THEN "few"
    ELSE "other"

pluralLithuanian(n) ==
    LET mod10  == GoMod(n, 10)
        mod100 == GoMod(n, 100)
    IN  IF mod10 = 1 /\ mod100 # 11 THEN "one"
        ELSE IF mod10 >= 2 /\ mod10 <= 9 /\ ~(mod100 >= 11 /\ mod100 <= 19)
             THEN "few"
        ELSE "other"

pluralArabic(n) ==
    LET mod100 == GoMod(n, 100)
    IN  IF n = 0 THEN "zero"
        ELSE IF n = 1 THEN "one"
        ELSE IF n = 2 THEN "two"
        ELSE IF mod100 >= 3 /\ mod100 <= 10 THEN "few"
        ELSE IF mod100 >= 11 /\ mod100 <= 99 THEN "many"
        ELSE "other"

pluralAsian(n) == "other"

\* Calling the rule function the registry holds under a name.
ApplyRule(rule, n) ==
    CASE rule = "English"    -> pluralEnglish(n)
      [] rule = "French"     -> pluralFrench(n)
      [] rule = "Polish"     -> pluralPolish(n)
      [] rule = "Russian"    -> pluralRussian(n)
      [] rule = "Czech"      -> pluralCzech(n)
      [] rule = "Romanian"   -> pluralRomanian(n)
      [] rule = "Lithuanian" -> pluralLithuanian(n)
      [] rule = "Arabic"     -> pluralArabic(n)
      [] rule = "Asian"      -> pluralAsian(n)

\* Mutant of NormalizeLang: the code is truncated but not lowercased.
NormalizeLangNoLower(lang) ==
    IF Len(lang) > 2 THEN SubSeq(lang, 1, 2) ELSE lang

\* The normalisation of the language code: the first two bytes, lowercased.
NormalizeLang(lang) ==
    IF Len(lang) > 2 THEN ToLower(SubSeq(lang, 1, 2)) ELSE ToLower(lang)

ResolvePluralCategoryExtended(lang, n) ==
    LET code == NormalizeLang(lang)
    IN  IF code \in DOMAIN PluralRules
        THEN ApplyRule(PluralRules[code], n)
        ELSE pluralEnglish(n)

\* The resolver's own two-language function (package file of the Compiler).
ResolvePluralCategory(lang, n) ==
    CASE lang = "pl" ->
            (LET mod10  == GoMod(n, 10)
                 mod100 == GoMod(n, 100)
             IN  IF n = 1 THEN "one"
                 ELSE IF mod10 >= 2 /\ mod10 <= 4
                            /\ ~(mod100 >= 12 /\ mod100 <= 14)
                      THEN "few"
                 ELSE "many")
      [] lang = "en" -> (IF n = 1 THEN "one" ELSE "other")
      [] OTHER       -> (IF n = 1 THEN "one" ELSE "other")

-----------------------------------------------------------------------------
(* Go maps as functions over their key set. *)

EmptyMap == [k \in {} |-> ""]

MapPut(m, key, v) ==
    [k \in (DOMAIN m) \cup {key} |-> IF k = key THEN v ELSE m[k]]

-----------------------------------------------------------------------------
(* The compiler: a Program's statements into the compiled table.            *)
(* Compiled values carry their dynamic type: a string, a *RuntimeBlock or   *)
(* one of the reserved maps.                                                *)

StringVal(x)  == [t |-> "string", s |-> x]
BlockVal(rb)  == [t |-> "block", rb |-> rb]
StrMapVal(m)  == [t |-> "strmap", m |-> m]
AIMapVal(m)   == [t |-> "aimap", m |-> m]
ImportsVal(l) == [t |-> "imports", l |-> l]

RECURSIVE compileCases(_, _, _)
compileCases(cases, i, rb) ==
    IF i > Len(cases) THEN rb
    ELSE LET bc == cases[i]
         IN  IF bc.IsRange
             THEN compileCases(cases, i + 1,
                    [rb EXCEPT !.RangeCases =
                        Append(@, [Start |-> bc.RangeStart,
                                   End   |-> bc.RangeEnd,
                                   Value |-> bc.Value])])
             ELSE compileCases(cases, i + 1,
                    [rb EXCEPT !.Cases = MapPut(@, bc.Condition, bc.Value)])

compileBlock(node) ==
    compileCases(node.Cases, 1,
        [Argument |-> node.Argument, Cases |-> EmptyMap, RangeCases |-> <<>>])

\* Compiler.Compile on the value of an assignment.
compileAssign(stmt) ==
    IF stmt.Value.t = "StringLiteral"
    THEN StringVal(stmt.Value.Value)
    ELSE BlockVal(compileBlock(stmt.Value))

\* First pass: the metadata statements, later ones overwriting earlier ones.
RECURSIVE collectMetadata(_, _, _)
collectMetadata(stmts, i, metadata) ==
    IF i > Len(stmts) THEN metadata
    ELSE collectMetadata(stmts, i + 1,
            IF stmts[i].t = "Metadata"
            THEN MapPut(metadata, stmts[i].Key, stmts[i].Value)
            ELSE metadata)

\* A second pass in which a header nests under the section before it.
RECURSIVE compileStatementsNested(_, _, _, _)
compileStatementsNested(stmts, i, currentSection, result) ==
    IF i > Len(stmts) THEN result
    ELSE LET st == stmts[i]
         IN  CASE st.t = "Section" ->
                    compileStatementsNested(stmts, i + 1,
                        IF currentSection # ""
                        THEN currentSection \o "." \o st.Name ELSE st.Name,
                        result)
               [] st.t = "Assign" ->
                    compileStatementsNested(stmts, i + 1, currentSection,
                        MapPut(result,
                               IF currentSection # ""
                               THEN currentSection \o "." \o st.Name
                               ELSE st.Name,
                               compileAssign(st)))
               [] OTHER ->
                    compileStatementsNested(stmts, i + 1, currentSection, result)

\* Second pass: sections and assignments.
RECURSIVE compileStatements(_, _, _, _)
compileStatements(stmts, i, currentSection, result) ==
    IF i > Len(stmts) THEN result
    ELSE LET st == stmts[i]
         IN  CASE st.t = "Section" ->
                    compileStatements(stmts, i + 1, st.Name, result)
               [] st.t = "Assign" ->
                    compileStatements(stmts, i + 1, currentSection,
                        MapPut(result,
                               IF currentSection # ""
                               THEN currentSection \o "." \o st.Name
                               ELSE st.Name,
                               compileAssign(st)))
               [] OTHER ->
                    compileStatements(stmts, i + 1, currentSection, result)

\* The annotation list grouped by target key ("__global" when it has none).
RECURSIVE exportAnnotations(_, _, _)
exportAnnotations(anns, i, aiMap) ==
    IF i > Len(anns) THEN aiMap
    ELSE LET ann   == anns[i]
             entry == [type |-> ann.Type, value |-> ann.Value]
             key   == IF ann.ForKey # "" THEN ann.ForKey ELSE "__global"
             old   == IF key \in DOMAIN aiMap THEN aiMap[key] ELSE <<>>
         IN  exportAnnotations(anns, i + 1, MapPut(aiMap, key, Append(old, entry)))

compileProgram(p) ==
    LET metadata == collectMetadata(p.Statements, 1, EmptyMap)
        r0 == compileStatements(p.Statements, 1, "", EmptyMap)
        r1 == IF DOMAIN metadata # {}
              THEN MapPut(r0, "__meta", StrMapVal(metadata)) ELSE r0
        r2 == IF Len(p.AIAnnotations) > 0
              THEN MapPut(r1, "__ai",
                          AIMapVal(exportAnnotations(p.AIAnnotations, 1, EmptyMap)))
              ELSE r1
        r3 == IF Len(p.Imports) > 0
              THEN MapPut(r2, "__imports", ImportsVal(p.Imports)) ELSE r2
        r4 == IF DOMAIN p.Terms # {}
              THEN MapPut(r3, "__terms", StrMapVal(p.Terms)) ELSE r3
    IN  r4

-----------------------------------------------------------------------------
(* fmt's %v of the reserved maps: keys in sorted order. *)

\* The bytes map keys are made of, in byte order.
ByteOrder == "-.0123456789ABCDEFGHIJKLMNOPQRSTUVWXYZ_abcdefghijklmnopqrstuvwxyz"

RECURSIVE StrLess(_, _)
StrLess(a, b) ==
    IF b = "" THEN FALSE
    ELSE IF a = "" THEN TRUE
    ELSE LET x == IndexOf(SubSeq(a, 1, 1), ByteOrder)
             y == IndexOf(SubSeq(b, 1, 1), ByteOrder)
         IN  IF x # y THEN x < y
             ELSE StrLess(SubSeq(a, 2, Len(a)), SubSeq(b, 2, Len(b)))

RECURSIVE SortedKeys(_)
SortedKeys(S) ==
    IF S = {} THEN <<>>
    ELSE LET least == CHOOSE k \in S : \A o \in S \ {k} : StrLess(k, o)
         IN  <<least>> \o SortedKeys(S \ {least})

RECURSIVE JoinSpace(_, _)
JoinSpace(items, i) ==
    IF i > Len(items) THEN ""
    ELSE items[i] \o (IF i < Len(items) THEN " " ELSE "") \o JoinSpace(items, i + 1)

FormatStrMap(m) ==
    LET ks == SortedKeys(DOMAIN m)
    IN  "map[" \o JoinSpace([i \in 1..Len(ks) |-> ks[i] \o ":" \o m[ks[i]]], 1) \o "]"

FormatEntries(l) ==
    "[" \o JoinSpace([i \in 1..Len(l) |-> FormatStrMap(l[i])], 1) \o "]"

FormatAIMap(m) ==
    LET ks == SortedKeys(DOMAIN m)
    IN  "map[" \o JoinSpace([i \in 1..Len(ks) |->
                                ks[i] \o ":" \o FormatEntries(m[ks[i]])], 1) \o "]"

\* fmt.Sprintf("%v", v) of a compiled value that is neither string nor block.
FormatCompiled(v) ==
    CASE v.t = "strmap"  -> FormatStrMap(v.m)
      [] v.t = "aimap"   -> FormatAIMap(v.m)
      [] v.t = "imports" -> "[" \o JoinSpace(v.l, 1) \o "]"

-----------------------------------------------------------------------------
(* The runtime. *)

NewRuntimeWithOptions(data, escapeHTML) ==
    [Data       |-> data,
     Terms      |-> IF "__terms" \in DOMAIN data /\ data["__terms"].t = "strmap"
                    THEN data["__terms"].m ELSE EmptyMap,
     Language   |-> IF "__meta" \in DOMAIN data /\ data["__meta"].t = "strmap"
                       /\ "lang" \in DOMAIN data["__meta"].m
                    THEN data["__meta"].m["lang"] ELSE "en",
     escapeHTML |-> escapeHTML]

NewRuntime(data) == NewRuntimeWithOptions(data, FALSE)

\* The coercion of the value to match to an int (0 when it is not numeric).
NumArg(v) ==
    CASE v.t = "int"     -> v.n
      [] v.t = "int64"   -> v.n
      [] v.t = "float64" -> TruncHalf(v.n)
      [] OTHER           -> 0

\* Mutant of FirstRange: the upper end is exclusive.
FirstRangeOpenEnd(rangeCases, numArg) ==
    LET hits == {i \in 1..Len(rangeCases) :
                    numArg >= rangeCases[i].Start /\ numArg < rangeCases[i].End}
    IN  IF hits = {} THEN 0 ELSE CHOOSE i \in hits : \A j \in hits : i <= j

\* The first range, in list order, that contains numArg; 0 when none does.
FirstRange(rangeCases, numArg) ==
    LET hits == {i \in 1..Len(rangeCases) :
                    numArg >= rangeCases[i].Start /\ numArg <= rangeCases[i].End}
    IN  IF hits = {} THEN 0 ELSE CHOOSE i \in hits : \A j \in hits : i <= j

\* Mutant of MatchCases: the ranges are scanned before the exact number.
MatchCasesRangeFirst(rb, valToMatch, pluralCat) ==
    LET numArg == NumArg(valToMatch)
        numStr == Itoa(numArg)
        hit    == FirstRange(rb.RangeCases, numArg)
    IN  IF valToMatch.t = "string" /\ valToMatch.s \in DOMAIN rb.Cases
        THEN rb.Cases[valToMatch.s]
        ELSE IF hit # 0 THEN rb.RangeCases[hit].Value
        ELSE IF numStr \in DOMAIN rb.Cases THEN rb.Cases[numStr]
        ELSE IF pluralCat \in DOMAIN rb.Cases THEN rb.Cases[pluralCat]
        ELSE IF "other" \in DOMAIN rb.Cases THEN rb.Cases["other"]
        ELSE ""

\* Steps shared by Resolve and ResolveWithLang once the value to match and
\* the plural category function's language are fixed.
MatchCases(rb, valToMatch, pluralCat) ==
    LET numArg == NumArg(valToMatch)
        numStr == Itoa(numArg)
        hit    == FirstRange(rb.RangeCases, numArg)
    IN  IF valToMatch.t = "string" /\ valToMatch.s \in DOMAIN rb.Cases
        THEN rb.Cases[valToMatch.s]
        ELSE IF numStr \in DOMAIN rb.Cases THEN rb.Cases[numStr]
        ELSE IF hit # 0 THEN rb.RangeCases[hit].Value
        ELSE IF pluralCat \in DOMAIN rb.Cases THEN rb.Cases[pluralCat]
        ELSE IF "other" \in DOMAIN rb.Cases THEN rb.Cases["other"]
        ELSE ""

\* The value to match: the block's argument taken out of a raw map.
ValToMatch(rb, arg) ==
    IF arg.t = "map" /\ rb.Argument # "" /\ rb.Argument \in DOMAIN arg.m
    THEN arg.m[rb.Argument]
    ELSE arg

ResolveWithLang(rb, arg, lang) ==
    LET valToMatch == ValToMatch(rb, arg)
    IN  MatchCases(rb, valToMatch,
                   ResolvePluralCategory(lang, NumArg(valToMatch)))

Resolve(rb, arg) ==
    MatchCases(rb, arg, ResolvePluralCategory("pl", NumArg(arg)))

-----------------------------------------------------------------------------
(* Interpolation: the two regular-expression passes. *)

LetterSet   == Chars(LowerLetters) \cup Chars(UpperLetters) \cup {"_"}
ArgCharSet  == LetterSet \cup Chars(Digits)
TermCharSet == ArgCharSet \cup {"-"}

\* The first index >= j of s whose character is not in set (Len(s)+1 if none).
RECURSIVE RunEnd(_, _, _)
RunEnd(s, j, set) ==
    IF j <= Len(s) /\ SubSeq(s, j, j) \in set THEN RunEnd(s, j + 1, set) ELSE j

\* termRe at index i of s: the index of the closing brace, 0 when no match.
termMatchEnd(s, i) ==
    IF CharAt(s, i) = "{" /\ CharAt(s, i + 1) = "-" /\ CharAt(s, i + 2) \in LetterSet
    THEN LET j == RunEnd(s, i + 3, TermCharSet)
         IN  IF CharAt(s, j) = "}" THEN j ELSE 0
    ELSE 0

\* argRe at index i of s: the index of the closing brace, 0 when no match.
argMatchEnd(s, i) ==
    IF CharAt(s, i) = "{" /\ CharAt(s, i + 1) \in LetterSet
    THEN LET j == RunEnd(s, i + 2, ArgCharSet)
         IN  IF CharAt(s, j) = "}" THEN j ELSE 0
    ELSE 0

\* Mutant of termReplacement: an unknown term is dropped from the output.
termReplacementDropUnknown(terms, match) ==
    LET termName == SubSeq(match, 3, Len(match) - 1)
    IN  IF termName \in DOMAIN terms THEN terms[termName] ELSE ""

\* The callback of the term pass.
termReplacement(terms, match) ==
    LET termName == SubSeq(match, 3, Len(match) - 1)
    IN  IF termName \in DOMAIN terms THEN terms[termName] ELSE match

\* termRe.ReplaceAllStringFunc: leftmost matches, left to right.
RECURSIVE replaceTerms(_, _, _)
replaceTerms(s, i, terms) ==
    IF i > Len(s) THEN ""
    ELSE LET e == termMatchEnd(s, i)
         IN  IF e > 0
             THEN termReplacement(terms, SubSeq(s, i, e)) \o replaceTerms(s, e + 1, terms)
             ELSE SubSeq(s, i, i) \o replaceTerms(s, i + 1, terms)

\* Mutant of valStr: the escaping mode is ignored.
valStrRaw(v, escapeHTML) == FormatV(v)

\* A substituted value: its text form, HTML-escaped in escaping mode.
valStr(v, escapeHTML) ==
    IF escapeHTML THEN EscapeString(FormatV(v)) ELSE FormatV(v)

\* Mutant of argReplacement: a placeholder missing from the bag is dropped.
argReplacementDropMissing(arg, escapeHTML, match) ==
    LET key == SubSeq(match, 2, Len(match) - 1)
    IN  IF IsBag(arg)
        THEN IF key \in DOMAIN arg.m THEN valStr(arg.m[key], escapeHTML) ELSE ""
        ELSE valStr(arg, escapeHTML)

\* The callback of the argument pass.
argReplacement(arg, escapeHTML, match) ==
    LET key == SubSeq(match, 2, Len(match) - 1)
    IN  IF IsBag(arg)
        THEN IF key \in DOMAIN arg.m THEN valStr(arg.m[key], escapeHTML) ELSE match
        ELSE valStr(arg, escapeHTML)

\* argRe.ReplaceAllStringFunc.
RECURSIVE replaceArgs(_, _, _, _)
replaceArgs(s, i, arg, escapeHTML) ==
    IF i > Len(s) THEN ""
    ELSE LET e == argMatchEnd(s, i)
         IN  IF e > 0
             THEN argReplacement(arg, escapeHTML, SubSeq(s, i, e))
                      \o replaceArgs(s, e + 1, arg, escapeHTML)
             ELSE SubSeq(s, i, i) \o replaceArgs(s, i + 1, arg, escapeHTML)

interpolate(r, s, arg) ==
    IF s = "" THEN s
    ELSE LET s1 == replaceTerms(s, 1, r.Terms)
         IN  IF arg # Nil THEN replaceArgs(s1, 1, arg, r.escapeHTML) ELSE s1

\* The template Get hands to interpolate, for a string or block entry.
Template(r, key, args) ==
    LET v == r.Data[key]
    IN  IF v.t = "string" THEN v.s
        ELSE IF Len(args) > 0 THEN ResolveWithLang(v.rb, args[1], r.Language)
        ELSE Resolve(v.rb, StrV("other"))

\* Mutant of Get: a missing key yields the empty string.
GetEmptyOnMissing(r, key, args) ==
    IF key \notin DOMAIN r.Data THEN ""
    ELSE IF r.Data[key].t \in {"string", "block"}
    THEN interpolate(r, Template(r, key, args),
                     IF Len(args) > 0 THEN args[1] ELSE Nil)
    ELSE FormatCompiled(r.Data[key])

Get(r, key, args) ==
    IF key \notin DOMAIN r.Data THEN key
    ELSE IF r.Data[key].t \in {"string", "block"}
    THEN interpolate(r, Template(r, key, args),
                     IF Len(args) > 0 THEN args[1] ELSE Nil)
    ELSE FormatCompiled(r.Data[key])

-----------------------------------------------------------------------------
(* Source programs the runtime is built from. *)

Metadata(key, value) == [t |-> "Metadata", Key |-> key, Value |-> value]

AssignString(name, value) ==
    [t |-> "Assign", Name |-> name,
     Value |-> [t |-> "StringLiteral", Value |-> value]]

AssignBlock(name, argument, cases) ==
    [t |-> "Assign", Name |-> name,
     Value |-> [t |-> "BlockExpression", Argument |-> argument, Cases |-> cases]]

\* [condition] => "value" with a keyword or a number as condition.
LiteralCase(condition, value) ==
    [Condition |-> condition, Value |-> value, IsRange |-> FALSE,
     RangeStart |-> 0, RangeEnd |-> 0]

\* [start..end] => "value"
RangeCase(start, end, value) ==
    [Condition |-> Itoa(start) \o ".." \o Itoa(end), Value |-> value,
     IsRange |-> TRUE, RangeStart |-> start, RangeEnd |-> end]

\* Terms maps a term's name to the text of its string literal, the only
\* part of a TermDefinition the compiler exports.
Program(statements, terms) ==
    [Statements |-> statements, AIAnnotations |-> <<>>, Imports |-> <<>>,
     Terms |-> terms]

\* The cases a block is written from; each has its own template.
CasePool ==
    {LiteralCase("male", "Mr. {name}"),
     LiteralCase("one", "{n} file"),
     LiteralCase("few", "{n} pliki"),
     LiteralCase("other", "{n} files"),
     LiteralCase("2", "a pair"),
     RangeCase(1, 3, "some"),
     RangeCase(1, 19, "teens")}

\* Sequences of 1..MaxCases distinct cases, in every order.
CaseLists ==
    UNION {{l \in [1..k -> CasePool] : \A i, j \in 1..k : i # j => l[i] # l[j]}
             : k \in 1..MaxCases}

\* The key every program of the model defines.
MsgKey == "msg"

\* The language a block program declares ("" declares none).
LangPool == {"", "pl", "ru"}
ArgumentPool == {"n", "gender"}

\* The parts a template is written from: literal text, a placeholder
\* {name} or a term reference {-name}.
Lit(text)  == [kind |-> "lit",  name |-> "",   text |-> text]
Var(name)  == [kind |-> "var",  name |-> name, text |-> "{" \o name \o "}"]
Term(name) == [kind |-> "term", name |-> name, text |-> "{-" \o name \o "}"]

PartPool ==
    {Lit("Hi "), Lit(" {"),
     Var("n"), Var("name"),
     Term("brand"), Term("app-name")}

PartLists == UNION {[1..k -> PartPool] : k \in 1..MaxParts}

RECURSIVE JoinParts(_, _)
JoinParts(parts, i) ==
    IF i > Len(parts) THEN "" ELSE parts[i].text \o JoinParts(parts, i + 1)

\* The second glossary knows both terms, the first only one of them.
GlossaryPool ==
    {[brand |-> "Acme"],
     "brand" :> "<Acme>" @@ "app-name" :> "My {n}"}

\* The arguments Get is called with.
BagPool ==
    {[gender |-> StrV("male"), name |-> StrV("Bob")],
     [n |-> IntV(2)],
     [n |-> IntV(5), name |-> StrV("<b>x</b>")],
     [count |-> IntV(1)]}

ArgPool ==
    {<<>>, <<Nil>>, <<IntV(1), StrV("x")>>}
      \cup {<<IntV(n)>> : n \in (0 - MinNeg)..MaxArg}
      \cup {<<Int64V(2)>>, <<FloatV(5)>>, <<StrV("male")>>, <<StrV("<b>x</b>")>>,
            <<BoolV(TRUE)>>}
      \cup {<<MapV(f)>> : f \in BagPool}
      \cup {<<VarsV(f)>> : f \in BagPool}

CallPool ==
    ({MsgKey} \X ArgPool)
      \cup ({"missing.key", "__meta", "__terms", ""} \X {<<>>, <<IntV(1)>>, <<MapV([n |-> IntV(2)])>>})

-----------------------------------------------------------------------------
(* The runtime specification: a Runtime built from a compiled program, and *)
(* Get called on it.                                                        *)

NoCall == [op |-> "none", key |-> "", args |-> <<>>]

\* What the variables of the parts a specification leaves out hold.
NoRuntime == "none"
NoLexer == "none"
NoParser == "none"
NoManager == "none"
NoProcs == "none"

\* The source of a block program and of a template program.
BlockSource(lang, argument, cases) ==
    [kind |-> "block", parts |-> <<>>,
     prog |-> Program((IF lang = "" THEN <<>> ELSE <<Metadata("lang", lang)>>)
                         \o <<AssignBlock(MsgKey, argument, cases)>>, EmptyMap)]

TemplateSource(parts, terms) ==
    [kind |-> "template", parts |-> parts,
     prog |-> Program(<<AssignString(MsgKey, JoinParts(parts, 1))>>, terms)]

Init ==
    /\ \/ /\ \E lang \in LangPool, argument \in ArgumentPool, cases \in CaseLists :
                src = BlockSource(lang, argument, cases)
          /\ rt = NewRuntime(compileProgram(src.prog))
       \/ /\ \E parts \in PartLists, terms \in GlossaryPool :
                src = TemplateSource(parts, terms)
          /\ \E escapeHTML \in BOOLEAN :
                rt = NewRuntimeWithOptions(compileProgram(src.prog), escapeHTML)
    /\ call = NoCall
    /\ resolved = ""
    /\ ret = ""
    /\ peer = NoRuntime
    /\ lexer = NoLexer
    /\ parser = NoParser
    /\ manager = NoManager
    /\ procs = NoProcs

\* Runtime.Get(key, args...): resolved records the template handed to
\* interpolate, ret the returned string.
GetCall(key, args) ==
    /\ call.op = "none"
    /\ call' = [op |-> "Get", key |-> key, args |-> args]
    /\ resolved' = IF key \in DOMAIN rt.Data /\ rt.Data[key].t \in {"string", "block"}
                   THEN Template(rt, key, args) ELSE ""
    /\ ret' = Get(rt, key, args)
    /\ UNCHANGED <<src, rt>>
    /\ UNCHANGED frontEnd
    /\ UNCHANGED <<manager, procs>>

\* The caller takes the result; the runtime is ready for the next call.
Return ==
    /\ call.op # "none"
    /\ call' = NoCall
    /\ resolved' = ""
    /\ ret' = ""
    /\ UNCHANGED <<src, rt>>
    /\ UNCHANGED frontEnd
    /\ UNCHANGED <<manager, procs>>

Next ==
    \/ \E c \in CallPool : GetCall(c[1], c[2])
    \/ Return

Spec == Init /\ [][Next]_vars

-----------------------------------------------------------------------------
(* The plural engine as a pure function: Init draws the language string and *)
(* the integer, the action applies ResolvePluralCategoryExtended.           *)

\* A language string as callers write it, with the registry code it stands
\* for (its first two letters in lower case).
LangCase(lang, code) == [lang |-> lang, code |-> code]

LangCases ==
    {LangCase(c, c) : c \in DOMAIN PluralRules}
      \cup {LangCase("PL", "pl"), LangCase("pl-PL", "pl"), LangCase("Ru_RU", "ru"),
            LangCase("AR", "ar"), LangCase("Fr", "fr"), LangCase("lt-LT", "lt"),
            LangCase("RO", "ro"), LangCase("zh-Hant-TW", "zh"), LangCase("CS", "cs"),
            LangCase("english", "en"),
            LangCase("", ""), LangCase("x", "x"), LangCase("xx", "xx"),
            LangCase("XX-yy", "xx"), LangCase("p", "p"), LangCase("-", "-")}

PluralInts == (0 - PluralNeg)..PluralMax

InitPlural ==
    /\ src = [kind |-> "none", parts |-> <<>>, prog |-> Program(<<>>, EmptyMap)]
    /\ rt = NewRuntime(EmptyMap)
    /\ \E lc \in LangCases, n \in PluralInts :
          call = [op |-> "plural", lang |-> lc.lang, code |-> lc.code, n |-> n,
                  done |-> FALSE]
    /\ resolved = ""
    /\ ret = ""
    /\ peer = NoRuntime
    /\ lexer = NoLexer
    /\ parser = NoParser
    /\ manager = NoManager
    /\ procs = NoProcs

PluralResolve ==
    /\ call.op = "plural"
    /\ ~call.done
    /\ ret' = ResolvePluralCategoryExtended(call.lang, call.n)
    /\ call' = [call EXCEPT !.done = TRUE]
    /\ UNCHANGED <<src, rt, resolved>>
    /\ UNCHANGED frontEnd
    /\ UNCHANGED <<manager, procs>>

NextPlural == PluralResolve

SpecPlural == InitPlural /\ [][NextPlural]_vars

-----------------------------------------------------------------------------
(* Properties of the resolver, stated over a finished Get call on the       *)
(* entry MsgKey of a runtime built from a block program.                    *)

\* The cases of the source block, in declaration order.
SrcCases == src.prog.Statements[Len(src.prog.Statements)].Value.Cases

\* The compiled block.
Block == rt.Data[MsgKey].rb

GotBlock ==
    /\ call.op = "Get"
    /\ call.key = MsgKey
    /\ src.kind = "block"
    /\ Len(call.args) > 0

Arg1 == call.args[1]

\* Get was called on the block with the integer n itself as argument.
GotInt == GotBlock /\ Arg1.t \in {"int", "int64"}

\* The declared ranges that contain n, as indices into the source block.
RangesWith(n) ==
    {i \in DOMAIN SrcCases :
        /\ SrcCases[i].IsRange
        /\ SrcCases[i].RangeStart <= n
        /\ n <= SrcCases[i].RangeEnd}

FirstOf(S) == CHOOSE i \in S : \A j \in S : i <= j

HasLiteralCase(c) ==
    \E i \in DOMAIN SrcCases : ~SrcCases[i].IsRange /\ SrcCases[i].Condition = c

\* The template of the literal case c (the last one declared, should the
\* source declare c twice).
LiteralTemplate(c) ==
    LET S == {i \in DOMAIN SrcCases :
                ~SrcCases[i].IsRange /\ SrcCases[i].Condition = c}
    IN  SrcCases[CHOOSE i \in S : \A j \in S : j <= i].Value

\* C1 (as claimed): when Get is called with a keyed bag, mbel.Vars or raw
\* map, that holds the block's control variable, the case is selected by the
\* bag's value for that variable: a keyword value selects the keyword case,
\* an integer value the exact-integer case.
C1_BagValueSelectsCase ==
    (GotBlock /\ IsBag(Arg1) /\ Block.Argument \in DOMAIN Arg1.m) =>
        LET v == Arg1.m[Block.Argument]
        IN  /\ (v.t = "string" /\ HasLiteralCase(v.s))
                  => resolved = LiteralTemplate(v.s)
            /\ (v.t = "int" /\ HasLiteralCase(Itoa(v.n)))
                  => resolved = LiteralTemplate(Itoa(v.n))

\* C2 (as claimed): when no exact integer case and no range matches the
\* integer n, Get selects the case keyed by the category the plural engine
\* returns for the runtime's language and n.
C2_CategoryFromPluralEngine ==
    (GotInt /\ ~HasLiteralCase(Itoa(Arg1.n)) /\ RangesWith(Arg1.n) = {}
       /\ HasLiteralCase(ResolvePluralCategoryExtended(rt.Language, Arg1.n))) =>
        resolved = LiteralTemplate(ResolvePluralCategoryExtended(rt.Language, Arg1.n))

\* C3: Get on a key that is not in the compiled table returns the key
\* itself, whatever the arguments.
C3_MissingKeyReturnsKey ==
    (call.op = "Get" /\ call.key \notin DOMAIN rt.Data) => ret = call.key

\* C3 witness: a missing key was looked up with a bag argument on a runtime
\* whose table is not empty, and came back.
C3_Witness ==
    /\ call.op = "Get"
    /\ call.key = "missing.key"
    /\ Len(call.args) > 0 /\ IsBag(call.args[1])
    /\ MsgKey \in DOMAIN rt.Data
    /\ ret = "missing.key"

\* C4: a block with an exact-integer case for n resolves n to that case's
\* template, also when declared ranges contain n, in every declaration order.
C4_ExactBeatsRange ==
    (GotInt /\ HasLiteralCase(Itoa(Arg1.n))) =>
        resolved = LiteralTemplate(Itoa(Arg1.n))

\* C4 witness: two ranges containing 2 are declared before the exact case
\* [2], and 2 resolved to the exact case.
C4_Witness ==
    /\ GotInt /\ Arg1.n = 2
    /\ Len(SrcCases) = 3
    /\ SrcCases[1].IsRange /\ SrcCases[2].IsRange
    /\ RangesWith(2) = {1, 2}
    /\ SrcCases[3].Condition = "2"
    /\ resolved = SrcCases[3].Value

\* The range cases of the source block in declaration order, as compiled.
RECURSIVE SourceRanges(_, _)
SourceRanges(cases, i) ==
    IF i > Len(cases) THEN <<>>
    ELSE (IF cases[i].IsRange
          THEN <<[Start |-> cases[i].RangeStart, End |-> cases[i].RangeEnd,
                  Value |-> cases[i].Value]>>
          ELSE <<>>) \o SourceRanges(cases, i + 1)

\* C5: with no exact-integer case for n, n resolves to the first declared
\* range with start <= n <= end; a range that does not contain n is never
\* chosen; and the compiled range list is the source's ranges in order.
C5_FirstRangeInSourceOrder ==
    /\ src.kind = "block" => Block.RangeCases = SourceRanges(SrcCases, 1)
    /\ (GotInt /\ ~HasLiteralCase(Itoa(Arg1.n))) =>
          /\ RangesWith(Arg1.n) # {}
                => resolved = SrcCases[FirstOf(RangesWith(Arg1.n))].Value
          /\ \A i \in DOMAIN SrcCases :
                (SrcCases[i].IsRange /\ resolved = SrcCases[i].Value)
                    => i \in RangesWith(Arg1.n)

\* C5 witness: [1..3] is declared before [1..19]; 19, the inclusive end of
\* the second range, skipped the first range and resolved to the second.
C5_Witness ==
    /\ GotInt /\ Arg1.n = 19
    /\ SrcCases[1].IsRange /\ SrcCases[1].RangeEnd = 3
    /\ RangesWith(19) = {2}
    /\ resolved = SrcCases[2].Value

\* C6 (as claimed): for an integer n without exact case: a range containing
\* n wins over the plural-category case for n, that case wins over `other`,
\* `other` is returned when nothing more specific matches, and the empty
\* template only when no case matches and there is no `other`.
C6_TailOrder ==
    (GotInt /\ ~HasLiteralCase(Itoa(Arg1.n))) =>
        LET cat == ResolvePluralCategoryExtended(rt.Language, Arg1.n)
        IN  resolved =
              IF RangesWith(Arg1.n) # {}
              THEN SrcCases[FirstOf(RangesWith(Arg1.n))].Value
              ELSE IF HasLiteralCase(cat) THEN LiteralTemplate(cat)
              ELSE IF HasLiteralCase("other") THEN LiteralTemplate("other")
              ELSE ""

\* The order itself, with the category the resolver computes at its plural
\* step (ResolvePluralCategory): range, then that category, then `other`,
\* then the empty template.
ResolverTailOrder ==
    (GotInt /\ ~HasLiteralCase(Itoa(Arg1.n))) =>
        LET cat == ResolvePluralCategory(rt.Language, Arg1.n)
        IN  resolved =
              IF RangesWith(Arg1.n) # {}
              THEN SrcCases[FirstOf(RangesWith(Arg1.n))].Value
              ELSE IF HasLiteralCase(cat) THEN LiteralTemplate(cat)
              ELSE IF HasLiteralCase("other") THEN LiteralTemplate("other")
              ELSE ""

-----------------------------------------------------------------------------
(* Properties of the plural engine, stated over a finished call.            *)

Categories == {"zero", "one", "two", "few", "many", "other"}

PluralDone == call.op = "plural" /\ call.done

\* The documented rules, for n >= 0, in terms of residue classes.
DocPolish(n) ==
    IF n = 1 THEN "one"
    ELSE IF (n % 10) \in 2..4 /\ (n % 100) \notin 12..14 THEN "few"
    ELSE "many"

DocRussian(n) ==
    IF n % 10 = 1 /\ n % 100 # 11 THEN "one"
    ELSE IF (n % 10) \in 2..4 /\ (n % 100) \notin 12..14 THEN "few"
    ELSE "many"

DocRomanian(n) ==
    IF n = 1 THEN "one"
    ELSE IF n = 0 \/ (n % 100) \in 1..19 THEN "few"
    ELSE "other"

DocLithuanian(n) ==
    IF n % 10 = 1 /\ n % 100 # 11 THEN "one"
    ELSE IF (n % 10) \in 2..9 /\ (n % 100) \notin 11..19 THEN "few"
    ELSE "other"

DocArabic(n) ==
    IF n = 0 THEN "zero"
    ELSE IF n = 1 THEN "one"
    ELSE IF n = 2 THEN "two"
    ELSE IF (n % 100) \in 3..10 THEN "few"
    ELSE IF (n % 100) \in 11..99 THEN "many"
    ELSE "other"

DocRule(code, n) ==
    CASE code = "pl" -> DocPolish(n)
      [] code = "ru" -> DocRussian(n)
      [] code = "ro" -> DocRomanian(n)
      [] code = "lt" -> DocLithuanian(n)
      [] code = "ar" -> DocArabic(n)

\* The CLDR categories of the boundary values, language by language.
BoundaryValues == <<0, 1, 2, 5, 11, 12, 13, 14, 19, 21, 22, 100>>

BoundaryTable ==
    [pl |-> <<"many", "one", "few", "many", "many", "many", "many", "many",
              "many", "many", "few", "many">>,
     ru |-> <<"many", "one", "few", "many", "many", "many", "many", "many",
              "many", "one", "few", "many">>,
     ar |-> <<"zero", "one", "two", "few", "many", "many", "many", "many",
              "many", "many", "many", "other">>,
     lt |-> <<"other", "one", "few", "few", "other", "other", "other", "other",
              "other", "one", "few", "other">>,
     ro |-> <<"few", "one", "few", "few", "few", "few", "few", "few",
              "few", "other", "other", "other">>]

\* C7: for Polish, Russian, Arabic, Lithuanian and Romanian and every n in
\* 0..PluralMax the engine returns the category of the documented piecewise
\* modulo rule, and on the boundary values the tabulated CLDR category.
C7_DocumentedPluralRules ==
    (PluralDone /\ call.code \in DOMAIN BoundaryTable /\ call.n >= 0) =>
        /\ ret = DocRule(call.code, call.n)
        /\ \A k \in DOMAIN BoundaryValues :
              call.n = BoundaryValues[k] => ret = BoundaryTable[call.code][k]

\* C7 witness: Polish 22 came back as few (22 % 10 = 2, 22 % 100 = 22).
C7_Witness ==
    PluralDone /\ call.lang = "pl" /\ call.n = 22 /\ ret = "few"

\* The categories of each rule family, by registry code; a code outside the
\* registry takes the English-like rule.
FamilyCategories(code) ==
    CASE code \in {"pl", "ru", "uk", "hr", "sr", "be"} -> {"one", "few", "many"}
      [] code \in {"cs", "sk", "ro", "lt"} -> {"one", "few", "other"}
      [] code = "ar" -> Categories
      [] code \in {"zh", "ja", "ko", "vi", "th", "id", "ms"} -> {"other"}
      [] OTHER -> {"one", "other"}

\* C8: for every language string (registered or not, any letter case, any
\* length, empty) and every integer (zero and negatives included) the engine
\* returns one label of the closed set, and that label is a category of the
\* language's rule family.
C8_PluralTotalAndClosed ==
    PluralDone => (ret \in Categories /\ ret \in FamilyCategories(call.code))

\* C8 witness: an upper-case locale tag with a negative integer came back
\* with a category of the Polish family.
C8_Witness ==
    PluralDone /\ call.lang = "PL" /\ call.n < 0 /\ ret = "many"

-----------------------------------------------------------------------------
(* Properties of interpolation, stated over a finished Get call on the      *)
(* entry MsgKey of a runtime built from a template program.                 *)

GotTemplate ==
    /\ call.op = "Get"
    /\ call.key = MsgKey
    /\ src.kind = "template"

\* The argument interpolate receives.
InterpArg == IF Len(call.args) > 0 THEN call.args[1] ELSE Nil

\* The text a value is substituted as: its text form, HTML-escaped when the
\* runtime's escaping mode is on.
Substituted(v) ==
    IF rt.escapeHTML THEN EscapeString(FormatV(v)) ELSE FormatV(v)

ExpectedPart(part, arg) ==
    CASE part.kind = "lit" -> part.text
      [] part.kind = "term" ->
            IF part.name \in DOMAIN rt.Terms THEN rt.Terms[part.name]
            ELSE part.text
      [] part.kind = "var" ->
            IF arg = Nil THEN part.text
            ELSE IF IsBag(arg)
            THEN (IF part.name \in DOMAIN arg.m THEN Substituted(arg.m[part.name])
                  ELSE part.text)
            ELSE Substituted(arg)

RECURSIVE Expected(_, _, _)
Expected(parts, i, arg) ==
    IF i > Len(parts) THEN ""
    ELSE ExpectedPart(parts[i], arg) \o Expected(parts, i + 1, arg)

\* No glossary value the template pulls in holds a brace of its own.
PlainTermValues ==
    \A i \in DOMAIN src.parts :
        (src.parts[i].kind = "term" /\ src.parts[i].name \in DOMAIN rt.Terms)
            => "{" \notin Chars(rt.Terms[src.parts[i].name])

\* C9: with a keyed bag, every placeholder {identifier} of the template whose
\* name is in the bag is replaced by the text form of the bag's value and
\* every other placeholder stays verbatim; with a scalar, every placeholder
\* is replaced by the scalar's text form (the text form is HTML-escaped when
\* the runtime's escaping mode is on); the text around them is unchanged.
C9_VariableInterpolation ==
    (GotTemplate /\ InterpArg # Nil /\ PlainTermValues) =>
        ret = Expected(src.parts, 1, InterpArg)

\* C9 witness: a raw map holding n but not name met a template with both
\* placeholders; {n} was replaced and {name} stayed.
C9_Witness ==
    /\ GotTemplate
    /\ src.parts = <<Lit("Hi "), Var("n"), Var("name")>>
    /\ InterpArg = MapV([n |-> IntV(2)])
    /\ ret = "Hi 2{name}"

\* C10: every term reference {-name} of the template whose name is in the
\* glossary is replaced by the glossary value and every other reference stays
\* verbatim (checked on calls without a variable argument, so that the output
\* is the term pass's own).
C10_TermInterpolation ==
    (GotTemplate /\ InterpArg = Nil) =>
        ret = Expected(src.parts, 1, Nil)

\* C10 witness: with the glossary {brand: "Acme"}, {-brand} was replaced and
\* the unknown {-app-name} stayed.
C10_Witness ==
    /\ GotTemplate
    /\ InterpArg = Nil
    /\ rt.Terms = [brand |-> "Acme"]
    /\ src.parts = <<Lit("Hi "), Term("brand"), Term("app-name")>>
    /\ ret = "Hi Acme{-app-name}"

-----------------------------------------------------------------------------
(* The escaping specification: two Runtimes built from one compiled table, *)
(* each with its own escaping mode; Get and SetEscapeHTML are called on    *)
(* either of them.                                                          *)

\* Runtime.SetEscapeHTML(escape)
SetEscapeHTML(r, escape) == [r EXCEPT !.escapeHTML = escape]

\* Template parts with HTML in the template's own text.
EscPartPool ==
    {Lit("<i>"), Lit("a&b {"),
     Var("n"), Var("name"),
     Term("brand")}

EscPartLists == UNION {[1..k -> EscPartPool] : k \in 1..MaxParts}

EscGlossary == [brand |-> "<Acme>"]

EscArgPool ==
    {<<>>,
     <<IntV(5)>>,
     <<StrV("<b>x</b>")>>,
     <<VarsV([name |-> StrV("<b>x</b>")])>>,
     <<MapV([name |-> StrV("Tom & 'Al'"), n |-> IntV(2)])>>,
     <<MapV([n |-> StrV("\"q\"")])>>}

RuntimeIds == {"rt", "peer"}

\* The Runtime a call is made on.
Target(id) == IF id = "rt" THEN rt ELSE peer

InitEscape ==
    /\ \E parts \in EscPartLists : src = TemplateSource(parts, EscGlossary)
    /\ \E escapeHTML \in BOOLEAN :
          rt = NewRuntimeWithOptions(compileProgram(src.prog), escapeHTML)
    /\ \E escapeHTML \in BOOLEAN :
          peer = NewRuntimeWithOptions(compileProgram(src.prog), escapeHTML)
    /\ call = NoCall
    /\ resolved = ""
    /\ ret = ""
    /\ lexer = NoLexer
    /\ parser = NoParser
    /\ manager = NoManager
    /\ procs = NoProcs

\* Get on one of the two runtimes.
EscGetCall(id, args) ==
    /\ call.op = "none"
    /\ call' = [op |-> "Get", key |-> MsgKey, args |-> args, target |-> id]
    /\ resolved' = Template(Target(id), MsgKey, args)
    /\ ret' = Get(Target(id), MsgKey, args)
    /\ UNCHANGED <<src, rt, peer, lexer, parser>>
    /\ UNCHANGED <<manager, procs>>

\* SetEscapeHTML on one of the two runtimes.
SetEscapeHTMLCall(id, escape) ==
    /\ call.op = "none"
    /\ call' = [op |-> "SetEscapeHTML", key |-> "", args |-> <<>>,
                target |-> id, escape |-> escape]
    /\ rt' = IF id = "rt" THEN SetEscapeHTML(rt, escape) ELSE rt
    /\ peer' = IF id = "peer" THEN SetEscapeHTML(peer, escape) ELSE peer
    /\ UNCHANGED <<src, resolved, ret, lexer, parser>>
    /\ UNCHANGED <<manager, procs>>

NextEscape ==
    \/ \E id \in RuntimeIds, args \in EscArgPool : EscGetCall(id, args)
    \/ \E id \in RuntimeIds, escape \in BOOLEAN : SetEscapeHTMLCall(id, escape)
    \/ Return

SpecEscape == InitEscape /\ [][NextEscape]_vars

\* The output the template's parts stand for when argument values are
\* substituted escaped (escape) or raw: template text and glossary text as
\* written, each substituted argument value in its text form.
EscExpectedPart(part, arg, escape) ==
    CASE part.kind = "lit" -> part.text
      [] part.kind = "term" -> EscGlossary[part.name]
      [] part.kind = "var" ->
            IF arg = Nil THEN part.text
            ELSE IF IsBag(arg)
            THEN (IF part.name \in DOMAIN arg.m
                  THEN (IF escape THEN EscapeString(FormatV(arg.m[part.name]))
                        ELSE FormatV(arg.m[part.name]))
                  ELSE part.text)
            ELSE (IF escape THEN EscapeString(FormatV(arg)) ELSE FormatV(arg))

RECURSIVE EscExpected(_, _, _, _)
EscExpected(parts, i, arg, escape) ==
    IF i > Len(parts) THEN ""
    ELSE EscExpectedPart(parts[i], arg, escape)
            \o EscExpected(parts, i + 1, arg, escape)

\* A Get call's output follows the mode of the runtime it was made on.
EscOutputFollowsOwnMode ==
    call.op = "Get" =>
        ret = EscExpected(src.parts, 1, InterpArg, Target(call.target).escapeHTML)

\* SetEscapeHTML changes the mode of the runtime it is called on and nothing
\* of the other runtime; no other step changes either runtime.
EscModePerInstance ==
    /\ call'.op = "SetEscapeHTML" =>
          /\ (IF call'.target = "rt" THEN rt' ELSE peer').escapeHTML = call'.escape
          /\ call'.target = "rt" => peer' = peer
          /\ call'.target = "peer" => rt' = rt
    /\ call'.op # "SetEscapeHTML" => (rt' = rt /\ peer' = peer)

-----------------------------------------------------------------------------
(* The lexer.  The input is the sequence of its bytes: one-character       *)
(* strings, and NUL for a zero byte, which is also what ch holds once the   *)
(* input is exhausted.  Positions count from 0 as in the code.              *)

NUL == "NUL"

\* The bytes of a text without zero bytes.
Bytes(s) == [i \in 1..Len(s) |-> SubSeq(s, i, i)]

\* input[from:to] as a string (the slices the lexer takes hold no zero byte).
RECURSIVE Slice(_, _, _)
Slice(input, from, to) ==
    IF from >= to THEN ""
    ELSE IF to = from + 1 THEN input[from + 1]
    ELSE Slice(input, from, (from + to) \div 2)
            \o Slice(input, (from + to) \div 2, to)

isLetter(ch) == ch \in LetterSet
isDigit(ch) == ch \in Chars(Digits)

newToken(tokenType, literal, line, col) ==
    [Type |-> tokenType, Literal |-> literal, Line |-> line, Column |-> col]

readChar(l) ==
    [l EXCEPT !.ch = IF l.readPosition >= Len(l.input) THEN NUL
                     ELSE l.input[l.readPosition + 1],
              !.position = l.readPosition,
              !.readPosition = l.readPosition + 1,
              !.column = l.column + 1]

peekChar(l) ==
    IF l.readPosition >= Len(l.input) THEN NUL ELSE l.input[l.readPosition + 1]

NewLexer(input) ==
    readChar([input |-> input, position |-> 0, readPosition |-> 0, ch |-> NUL,
              line |-> 1, column |-> 0])

\* The lexer after n calls of readChar.
readChars(l, n) ==
    IF n = 0 THEN l
    ELSE [l EXCEPT !.ch = IF l.readPosition + n - 1 >= Len(l.input) THEN NUL
                          ELSE l.input[l.readPosition + n],
                   !.position = l.readPosition + n - 1,
                   !.readPosition = l.readPosition + n,
                   !.column = l.column + n]

\* A loop of readChar calls: the lexer after the fewest calls among
\* `stops`, the numbers of calls that leave it on a byte the loop stops at.
\* Every loop of the lexer stops at the zero byte readChar gives past the
\* end of the input.
readUntil(l, stops) ==
    readChars(l, CHOOSE n \in stops : \A m \in stops : n <= m)

\* Skips ' ', \t and \r but not \n.
skipWhitespace(l) ==
    readUntil(l, {n \in 0..(Len(l.input) + 1) :
                    readChars(l, n).ch \notin {" ", "\t", "\r"}})

\* The loop of readIdentifier taking every dot as part of the name.
identifierEndAnyDot(l) ==
    readUntil(l, {n \in 0..(Len(l.input) + 1) :
                    ~(\/ isLetter(readChars(l, n).ch)
                      \/ isDigit(readChars(l, n).ch)
                      \/ readChars(l, n).ch \in {"_", "."})})

\* The lexer after the loop of readIdentifier.
identifierEnd(l) ==
    readUntil(l, {n \in 0..(Len(l.input) + 1) :
                    \/ ~(\/ isLetter(readChars(l, n).ch)
                         \/ isDigit(readChars(l, n).ch)
                         \/ readChars(l, n).ch \in {"_", "."})
                    \/ /\ readChars(l, n).ch = "."
                       /\ peekChar(readChars(l, n)) = "."})

readIdentifier(l) ==
    LET e == identifierEnd(l)
    IN  [lit |-> Slice(l.input, l.position, e.position), l |-> e]

digitsEnd(l) ==
    readUntil(l, {n \in 0..(Len(l.input) + 1) : ~isDigit(readChars(l, n).ch)})

readNumber(l) ==
    LET d == digitsEnd(l)
        e == IF d.ch = "." /\ peekChar(d) # "." THEN digitsEnd(readChar(d)) ELSE d
    IN  [lit |-> Slice(l.input, l.position, e.position), l |-> e]

\* The lexer after the loop of readString: on the closing quote or at the end.
stringEnd(l) ==
    readUntil(l, {n \in 1..(Len(l.input) + 1) :
                    readChars(l, n).ch \in {"\"", NUL}})

readString(l) ==
    LET e == stringEnd(l)
    IN  [lit |-> Slice(l.input, l.position + 1, e.position), l |-> e]

\* Three quotes start at the current byte.
isTripleQuote(l) ==
    /\ l.ch = "\""
    /\ l.readPosition < Len(l.input)
    /\ l.input[l.readPosition + 1] = "\""
    /\ l.readPosition + 1 < Len(l.input)
    /\ l.input[l.readPosition + 2] = "\""

RECURSIVE tripleEnd(_)
tripleEnd(l) ==
    IF isTripleQuote(l) \/ l.ch = NUL THEN l
    ELSE tripleEnd(readChar(IF l.ch = "\n"
                            THEN [l EXCEPT !.line = l.line + 1, !.column = 0]
                            ELSE l))

readTripleQuotedString(l) ==
    LET b == readChar(readChar(readChar(l)))
        e == tripleEnd(b)
    IN  [lit |-> Slice(l.input, b.position, e.position),
         l |-> readChar(readChar(readChar(e)))]

\* The lexer after the loop of readComment: on the newline or at the end.
commentEnd(l) ==
    readUntil(l, {n \in 1..(Len(l.input) + 1) :
                    readChars(l, n).ch \in {"\n", NUL}})

readComment(l) ==
    LET e == commentEnd(l)
    IN  [lit |-> Slice(l.input, l.position + 1, e.position), l |-> e]

\* A one-byte token: the byte is its literal; the lexer moves past it.
oneByte(tokenType, l) ==
    [tok |-> newToken(tokenType, l.ch, l.line, l.column), l |-> readChar(l)]

\* Lexer.NextToken: the token and the lexer after the call.
NextToken(l0) ==
    LET l == skipWhitespace(l0)
    IN  CASE l.ch = "\n" ->
               [tok |-> newToken("NEWLINE", "", l.line, 0),
                l |-> readChar([l EXCEPT !.line = l.line + 1, !.column = 0])]
          [] l.ch = "=" ->
               IF peekChar(l) = ">"
               THEN LET n == readChar(l)
                    IN  [tok |-> newToken("=>", "=" \o n.ch, n.line, n.column),
                         l |-> readChar(n)]
               ELSE oneByte("=", l)
          [] l.ch \in {"@", "{", "}", "[", "]", "(", ")", ":", ","} -> oneByte(l.ch, l)
          [] l.ch = "." ->
               IF peekChar(l) = "."
               THEN LET n == readChar(l)
                    IN  [tok |-> newToken("..", "." \o n.ch, n.line, n.column),
                         l |-> readChar(n)]
               ELSE oneByte("ILLEGAL", l)
          [] l.ch = "\"" ->
               IF isTripleQuote(l)
               THEN LET r == readTripleQuotedString(l)
                    IN  [tok |-> newToken("STRING", r.lit, r.l.line, r.l.column),
                         l |-> r.l]
               ELSE LET r == readString(l)
                    IN  [tok |-> newToken("STRING", r.lit, r.l.line, r.l.column),
                         l |-> readChar(r.l)]
          [] l.ch = "#" ->
               LET r == readComment(l)
               IN  [tok |-> newToken("COMMENT", r.lit, r.l.line, r.l.column),
                    l |-> readChar(r.l)]
          [] l.ch = NUL ->
               [tok |-> newToken("EOF", "", l.line, l.column), l |-> readChar(l)]
          [] OTHER ->
               IF isLetter(l.ch)
               THEN LET r == readIdentifier(l)
                    IN  [tok |-> newToken("IDENT", r.lit, r.l.line, r.l.column),
                         l |-> r.l]
               ELSE IF isDigit(l.ch)
               THEN LET r == readNumber(l)
                    IN  [tok |-> newToken("NUMBER", r.lit, r.l.line, r.l.column),
                         l |-> r.l]
               ELSE oneByte("ILLEGAL", l)

-----------------------------------------------------------------------------
(* The strings package, as far as the parser uses it. *)

WhiteSpace == {" ", "\t", "\n", "\r", "\f"}

RECURSIVE TrimLeft(_)
TrimLeft(s) ==
    IF s # "" /\ SubSeq(s, 1, 1) \in WhiteSpace THEN TrimLeft(SubSeq(s, 2, Len(s)))
    ELSE s

RECURSIVE TrimRight(_)
TrimRight(s) ==
    IF s # "" /\ SubSeq(s, Len(s), Len(s)) \in WhiteSpace
    THEN TrimRight(SubSeq(s, 1, Len(s) - 1))
    ELSE s

\* strings.TrimSpace
TrimSpace(s) == TrimRight(TrimLeft(s))

\* strings.HasPrefix / strings.HasSuffix
HasPrefix(s, prefix) ==
    Len(s) >= Len(prefix) /\ SubSeq(s, 1, Len(prefix)) = prefix
HasSuffix(s, suffix) ==
    Len(s) >= Len(suffix) /\ SubSeq(s, Len(s) - Len(suffix) + 1, Len(s)) = suffix

\* strings.Index(s, c) for a one-byte c: 0-based, -1 when absent.
Index(s, c) ==
    IF c \in Chars(s)
    THEN (CHOOSE i \in 1..Len(s) :
             SubSeq(s, i, i) = c /\ \A j \in 1..(i - 1) : SubSeq(s, j, j) # c) - 1
    ELSE -1

\* How many bytes of s are c.
CountByte(s, c) == Cardinality({i \in 1..Len(s) : SubSeq(s, i, i) = c})

\* strconv.Atoi on the literal of a NUMBER token (digits, at most one dot):
\* ok is FALSE when the literal is not all digits.
RECURSIVE DigitsValue(_, _)
DigitsValue(s, acc) ==
    IF s = "" THEN acc
    ELSE DigitsValue(SubSeq(s, 2, Len(s)),
                     acc * 10 + (IndexOf(SubSeq(s, 1, 1), Digits) - 1))

Atoi(s) ==
    IF s # "" /\ Chars(s) \subseteq Chars(Digits)
    THEN [ok |-> TRUE, n |-> DigitsValue(s, 0)]
    ELSE [ok |-> FALSE, n |-> 0]

-----------------------------------------------------------------------------
(* The parser.  Operators take the Parser p (with the Program it builds in *)
(* p.program) and give the Parser after the call, beside the value the      *)
(* method returns.  pulls counts the tokens taken from the lexer and iters  *)
(* the completed iterations of the parser's loops.                          *)

\* The zero Token.
ZeroToken == newToken("", "", 0, 0)

\* A nil statement, expression or annotation.
NilNode == [t |-> "nil"]

SectionStatement(name) == [t |-> "Section", Name |-> name]
ImportStatement(namespace) == [t |-> "Import", Namespace |-> namespace]

AIAnnotation(type, value, line) ==
    [t |-> "AIAnnotation", Type |-> type, Value |-> value, Line |-> line,
     ForKey |-> ""]

\* Mutant of peekError: the message is recorded without its line.
peekErrorNoLine(p, t) ==
    [p EXCEPT !.errors = Append(@,
        "expected next token to be " \o t \o ", got " \o p.peekToken.Type
            \o " instead")]

peekError(p, t) ==
    [p EXCEPT !.errors = Append(@,
        "expected next token to be " \o t \o ", got " \o p.peekToken.Type
            \o " instead at line " \o Itoa(p.peekToken.Line))]

\* The member of a one-element set. Only({e : x \in {v}}) is e with x
\* standing for the value of v, which is computed once.
Only(S) == CHOOSE x \in S : TRUE

\* Iteration applied n times in a row (n >= 1).
RECURSIVE Repeat(_, _, _)
Repeat(Iteration(_), s, n) ==
    IF n = 1 THEN Iteration(s)
    ELSE Only({Repeat(Iteration, h, n - n \div 2)
               : h \in {Repeat(Iteration, s, n \div 2)}})

\* A loop run to its end from the state s of its variables. Iteration(s)
\* is s after one more iteration, and s itself once the loop has ended;
\* the iterations are run n at a time.
RECURSIVE Loop(_, _, _)
Loop(Iteration(_), s, n) ==
    Only({IF Iteration(r) = r THEN r ELSE Loop(Iteration, r, 2 * n)
          : r \in {Repeat(Iteration, s, n)}})

\* curToken = peekToken; peekToken = l.NextToken()
advance(p) ==
    Only({[p EXCEPT !.curToken = p.peekToken, !.peekToken = r.tok, !.l = r.l,
                    !.pulls = p.pulls + 1]
          : r \in {NextToken(p.l)}})

\* parseMultiLineAnnotation: the outer braces removed when both are there.
parseMultiLineAnnotation(value) ==
    LET v == TrimSpace(value)
    IN  IF HasPrefix(v, "{") /\ HasSuffix(v, "}")
        THEN TrimSpace(SubSeq(v, 2, Len(v) - 1))
        ELSE v

RECURSIVE nextToken(_)
RECURSIVE skipComments(_)
RECURSIVE parseAIAnnotation(_, _)
RECURSIVE collectLine(_)
RECURSIVE collectLines(_, _, _)

\* Parser.nextToken
nextToken(p) == skipComments(advance(p))

\* The loop of nextToken over comment tokens.
skipComments(p) ==
    IF p.curToken.Type = "COMMENT"
    THEN Only({skipComments([advance(q) EXCEPT !.iters = q.iters + 1])
               : q \in {IF r.ann # NilNode
                        THEN [r.p EXCEPT !.pendingAIAnnotations = Append(@, r.ann)]
                        ELSE r.p
                        : r \in {parseAIAnnotation(p, p.curToken)}}})
    ELSE p

\* One iteration of the loop of parseAIAnnotation over the tokens of a
\* multi-line value, s holding the loop's variables; s itself once the loop
\* has ended.
collectLine(s) ==
    IF s.bracketCount > 0 /\ s.p.peekToken.Type # "EOF"
    THEN Only({[p |-> q,
                lines |-> s.lines \o "\n" \o q.curToken.Literal,
                bracketCount |-> s.bracketCount
                                    + CountByte(q.curToken.Literal, "{")
                                    - CountByte(q.curToken.Literal, "}")]
               : q \in {[n EXCEPT !.iters = n.iters + 1] : n \in {nextToken(s.p)}}})
    ELSE s

\* The loop of parseAIAnnotation over the tokens of a multi-line value:
\* the joined lines and the parser after the loop.
collectLines(p, lines, bracketCount) ==
    Only({[lines |-> s.lines, p |-> s.p]
          : s \in {Loop(collectLine,
                        [p |-> p, lines |-> lines, bracketCount |-> bracketCount],
                        8)}})

\* Parser.parseAIAnnotation: the annotation (NilNode when the comment is not
\* one) and the parser after the call.
parseAIAnnotation(p, tok) ==
    LET text == TrimSpace(tok.Literal)
        colonIdx == Index(text, ":")
    IN  IF ~HasPrefix(text, "AI_") \/ colonIdx = -1
        THEN [ann |-> NilNode, p |-> p]
        ELSE LET head == SubSeq(text, 1, colonIdx)
                 aiType == IF HasPrefix(head, "AI_")
                           THEN SubSeq(head, 4, Len(head)) ELSE head
                 value == TrimSpace(SubSeq(text, colonIdx + 2, Len(text)))
             IN  IF HasPrefix(value, "{")
                 THEN Only({[ann |-> AIAnnotation(aiType,
                                       parseMultiLineAnnotation(r.lines), tok.Line),
                             p |-> r.p]
                            : r \in {collectLines(p, value, 1)}})
                 ELSE [ann |-> AIAnnotation(aiType, value, tok.Line), p |-> p]

\* NewParser: two calls of nextToken fill curToken and peekToken.
NewParser(l) ==
    nextToken(nextToken(
        [l |-> l, curToken |-> ZeroToken, peekToken |-> ZeroToken,
         errors |-> <<>>, pendingAIAnnotations |-> <<>>,
         program |-> [Statements |-> <<>>, AIAnnotations |-> <<>>,
                      Imports |-> <<>>, Terms |-> EmptyMap],
         pulls |-> 0, iters |-> 0, done |-> FALSE]))

peekTokenIs(p, t) == p.peekToken.Type = t

expectPeek(p, t) ==
    IF peekTokenIs(p, t) THEN [ok |-> TRUE, p |-> nextToken(p)]
    ELSE [ok |-> FALSE, p |-> peekError(p, t)]

\* What a parse method gives back: the node (NilNode for nil) and the parser.
Parsed(stmt, p) == [stmt |-> stmt, p |-> p]

parseSectionStatement(p) ==
    Only({IF ~r1.ok THEN Parsed(NilNode, r1.p)
          ELSE Only({IF ~r2.ok THEN Parsed(NilNode, r2.p)
                     ELSE Parsed(SectionStatement(r1.p.curToken.Literal), r2.p)
                     : r2 \in {expectPeek(r1.p, "]")}})
          : r1 \in {expectPeek(p, "IDENT")}})

\* @key: value and @import namespace
parseMetadataOrImport(p) ==
    Only({LET key == r1.p.curToken.Literal
          IN  IF ~r1.ok THEN Parsed(NilNode, r1.p)
              ELSE IF key = "import"
              THEN Only({IF n.curToken.Type = "IDENT"
                         THEN Parsed(ImportStatement(n.curToken.Literal),
                                     [n EXCEPT !.program.Imports =
                                                   Append(@, n.curToken.Literal)])
                         ELSE Parsed(NilNode, peekError(n, "IDENT"))
                         : n \in {nextToken(r1.p)}})
              ELSE Only({IF ~r2.ok THEN Parsed(NilNode, r2.p)
                         ELSE Only({IF n.curToken.Type \in {"IDENT", "NUMBER", "STRING"}
                                    THEN Parsed(Metadata(key, n.curToken.Literal), n)
                                    ELSE Parsed(NilNode, peekError(n, "STRING"))
                                    : n \in {nextToken(r2.p)}})
                         : r2 \in {expectPeek(r1.p, ":")}})
          : r1 \in {expectPeek(p, "IDENT")}})

\* The condition between the brackets of a block case, read with curToken on
\* its first token: the case without its value, or ok = FALSE.
parseCondition(c) ==
    IF c.curToken.Type = "NUMBER"
    THEN LET startNum == c.curToken.Literal
         IN  IF peekTokenIs(c, "..")
             THEN Only({LET endNum == r.p.curToken.Literal
                            start == Atoi(startNum)
                            end == Atoi(endNum)
                        IN  IF ~r.ok THEN [ok |-> FALSE, bc |-> NilNode, p |-> r.p]
                            ELSE IF ~start.ok \/ ~end.ok
                            THEN [ok |-> FALSE, bc |-> NilNode,
                                  p |-> [r.p EXCEPT !.errors = Append(@,
                                           "Invalid range numbers at line "
                                              \o Itoa(r.p.curToken.Line))]]
                            ELSE [ok |-> TRUE, bc |-> RangeCase(start.n, end.n, ""),
                                  p |-> r.p]
                        : r \in {expectPeek(nextToken(c), "NUMBER")}})
             ELSE [ok |-> TRUE, bc |-> LiteralCase(startNum, ""), p |-> c]
    ELSE IF c.curToken.Type = "IDENT"
    THEN [ok |-> TRUE, bc |-> LiteralCase(c.curToken.Literal, ""), p |-> c]
    ELSE [ok |-> FALSE, bc |-> NilNode,
          p |-> [c EXCEPT !.errors = Append(@,
                   "Expected condition at line " \o Itoa(c.curToken.Line)
                      \o ", got " \o c.curToken.Type)]]

\* One case, read with curToken on its opening bracket.
parseBlockCase(p) ==
    Only({IF ~cond.ok THEN [ok |-> FALSE, bc |-> NilNode, p |-> cond.p]
          ELSE Only({IF ~r1.ok THEN [ok |-> FALSE, bc |-> NilNode, p |-> r1.p]
            ELSE Only({IF ~r2.ok THEN [ok |-> FALSE, bc |-> NilNode, p |-> r2.p]
              ELSE Only({IF ~r3.ok THEN [ok |-> FALSE, bc |-> NilNode, p |-> r3.p]
                         ELSE [ok |-> TRUE,
                               bc |-> [cond.bc EXCEPT !.Value = r3.p.curToken.Literal],
                               p |-> r3.p]
                         : r3 \in {expectPeek(r2.p, "STRING")}})
              : r2 \in {expectPeek(r1.p, "=>")}})
            : r1 \in {expectPeek(cond.p, "]")}})
          : cond \in {parseCondition(nextToken(p))}})

\* Parser.parseBlockCases: ok = FALSE stands for the nil it returns on an
\* error.
RECURSIVE blockCases(_, _)
blockCases(p, cases) ==
    IF ~peekTokenIs(p, "}") /\ ~peekTokenIs(p, "EOF")
    THEN Only({IF q.curToken.Type = "["
               THEN Only({IF r.ok THEN blockCases(r.p, Append(cases, r.bc))
                          ELSE [ok |-> FALSE, cases |-> <<>>, p |-> r.p]
                          : r \in {parseBlockCase(q)}})
               ELSE blockCases(q, cases)
               : q \in {[n EXCEPT !.iters = n.iters + 1] : n \in {nextToken(p)}}})
    ELSE Only({IF r.ok THEN [ok |-> TRUE, cases |-> cases, p |-> r.p]
               ELSE [ok |-> FALSE, cases |-> <<>>, p |-> r.p]
               : r \in {expectPeek(p, "}")}})

parseBlockCases(p) == blockCases(p, <<>>)

\* key(arg) { ... }, read with curToken on the key.  The statement is
\* returned with the cases parseBlockCases gave, nil included.
parseBlockAssignStatement(p, name) ==
    Only({IF ~r1.ok THEN Parsed(NilNode, r1.p)
          ELSE Only({IF ~r2.ok THEN Parsed(NilNode, r2.p)
            ELSE Only({IF ~r3.ok THEN Parsed(NilNode, r3.p)
              ELSE Only({Parsed(AssignBlock(name, r1.p.curToken.Literal, r.cases),
                                r.p)
                         : r \in {parseBlockCases(r3.p)}})
              : r3 \in {expectPeek(r2.p, "{")}})
            : r2 \in {expectPeek(r1.p, ")")}})
          : r1 \in {expectPeek(nextToken(p), "IDENT")}})

\* The pending annotations get the key as target and move to the program.
attachPending(p, name) ==
    IF Len(p.pendingAIAnnotations) > 0
    THEN [p EXCEPT !.program.AIAnnotations =
                       @ \o [i \in 1..Len(p.pendingAIAnnotations) |->
                               [p.pendingAIAnnotations[i] EXCEPT !.ForKey = name]],
                   !.pendingAIAnnotations = <<>>]
    ELSE p

parseAssignStatement(p0) ==
    LET name == p0.curToken.Literal
        p == attachPending(p0, name)
    IN  IF peekTokenIs(p, "=")
        THEN Only({IF n.curToken.Type = "STRING"
                   THEN Parsed(AssignString(name, n.curToken.Literal), n)
                   ELSE Parsed(NilNode,
                          [n EXCEPT !.errors = Append(@,
                              "Expected expression after = at line "
                                 \o Itoa(n.curToken.Line))])
                   : n \in {nextToken(nextToken(p))}})
        ELSE IF peekTokenIs(p, "(")
        THEN parseBlockAssignStatement(p, name)
        ELSE Parsed(NilNode, peekError(p, "="))

parseStatement(p) ==
    CASE p.curToken.Type = "@"     -> parseMetadataOrImport(p)
      [] p.curToken.Type = "IDENT" -> parseAssignStatement(p)
      [] p.curToken.Type = "["     -> parseSectionStatement(p)
      [] OTHER                     -> Parsed(NilNode, p)

\* Parser.synchronize: skips to a newline or to just before a token that can
\* start a statement.
RECURSIVE synchronize(_)
synchronize(p) ==
    IF p.curToken.Type \in {"EOF", "NEWLINE"} THEN p
    ELSE IF p.peekToken.Type \in {"IDENT", "@", "["} THEN p
    ELSE Only({synchronize([n EXCEPT !.iters = n.iters + 1])
               : n \in {nextToken(p)}})

\* One iteration of the statement loop of ParseProgram.
parseStep(p) ==
    Only({[n EXCEPT !.iters = n.iters + 1]
          : n \in {nextToken(q)
                   : q \in {IF r.stmt # NilNode
                            THEN [r.p EXCEPT !.program.Statements =
                                                 Append(@, r.stmt)]
                            ELSE IF r.p.curToken.Type \notin {"NEWLINE", "EOF"}
                            THEN synchronize(r.p)
                            ELSE r.p
                            : r \in {parseStatement(p)}}}})

\* The end of ParseProgram: annotations still pending join the program's
\* list without a target key.
parseFinish(p) ==
    [p EXCEPT !.program.AIAnnotations = @ \o p.pendingAIAnnotations,
              !.pendingAIAnnotations = <<>>,
              !.done = TRUE]

\* Parser.ParseProgram
RECURSIVE ParseProgram(_)
ParseProgram(p) ==
    IF p.curToken.Type # "EOF" THEN ParseProgram(parseStep(p)) ELSE parseFinish(p)

-----------------------------------------------------------------------------
(* The front-end specification: a source text is lexed and parsed one      *)
(* statement-loop iteration at a time, the Program is compiled, a Runtime   *)
(* is built from the table and Get is called on it.                         *)

\* Most units (lines, or blocks of lines) in one source text.
MaxUnits == 3

\* A unit of source text: what it is, the key it is about and its text.
Unit(kind, key, text) == [kind |-> kind, key |-> key, text |-> text]

AssignUnits ==
    {Unit("assign", "greeting", "greeting = \"Hello\"\n"),
     Unit("assign", "farewell", "farewell = \"Bye {-brand}\"\n"),
     Unit("assign", "count",
          "count(n) {\n  [one] => \"{n} file\"\n  [other] => \"{n} files\"\n}\n")}

AnnotationUnit == Unit("annotation", "Context", "# AI_Context: Greeting\n")

\* A single-line annotation whose value opens with a brace.
BracedUnit == Unit("braced", "Examples", "# AI_Examples: {name} is the user\n")

\* A multi-line annotation as the documentation writes it.
MultiLineUnit == Unit("multiline", "Tone", "# AI_Tone: {\n#   warm\n# }\n")

\* Lines between an annotation and its assignment.
FillerUnits ==
    {Unit("comment", "", "# note\n"),
     Unit("blank", "", "\n"),
     Unit("metadata", "lang", "@lang: pl\n"),
     Unit("section", "ui", "[ui]\n")}

\* Malformed assignments in string form: no value, no equals sign.
MalformedString ==
    {Unit("malformed", "bad", "bad = \n"),
     Unit("malformed", "bad", "bad \"x\"\n")}

\* Malformed assignments in logic-block form: a case without its arrow, a
\* header without its closing parenthesis, a case without its arrow before
\* a well-formed case.
MalformedBlock ==
    {Unit("malformed", "bad", "bad(n) {\n  [one] \"x\"\n}\n"),
     Unit("malformed", "bad", "bad(n {\n  [one] => \"x\"\n}\n"),
     Unit("malformed", "bad", "bad(n) {\n  [one] \"x\"\n  [other] => \"y\"\n}\n")}

MalformedUnits == MalformedString \cup MalformedBlock

TermUnit == Unit("term", "brand", "-brand = \"Acme\"\n")

\* An assignment whose name is one of the reserved keys.
ReservedUnit == Unit("assign", "__meta", "__meta = \"x\"\n")

\* A line that starts no statement: a string on its own.
StrayUnit == Unit("stray", "", "\"x\"\n")

UnitPool ==
    AssignUnits \cup {AnnotationUnit, BracedUnit, MultiLineUnit} \cup FillerUnits
        \cup MalformedUnits \cup {TermUnit, ReservedUnit, StrayUnit}

UnitLists == UNION {[1..k -> UnitPool] : k \in 1..MaxUnits}

RECURSIVE JoinUnits(_, _)
JoinUnits(units, i) ==
    IF i > Len(units) THEN "" ELSE units[i].text \o JoinUnits(units, i + 1)

TextSource(units) ==
    [kind |-> "text", parts |-> units, prog |-> Program(<<>>, EmptyMap),
     bytes |-> Bytes(JoinUnits(units, 1))]

\* The state after NewParser(NewLexer(input)), ParseProgram about to start.
ParserStart ==
    /\ lexer = NewLexer(src.bytes)
    /\ parser = NewParser(lexer)
    /\ call = [op |-> "ParseProgram", key |-> "", args |-> <<>>]
    /\ rt = NoRuntime
    /\ peer = NoRuntime
    /\ resolved = ""
    /\ ret = ""

InitParse ==
    /\ \E units \in UnitLists : src = TextSource(units)
    /\ ParserStart
    /\ manager = NoManager
    /\ procs = NoProcs

\* One iteration of the statement loop of ParseProgram.
ParseStep ==
    /\ call.op = "ParseProgram"
    /\ ~parser.done
    /\ parser.curToken.Type # "EOF"
    /\ parser' = parseStep(parser)
    /\ UNCHANGED <<src, lexer, rt, peer, call, resolved, ret>>
    /\ UNCHANGED <<manager, procs>>

\* The loop of ParseProgram ends at the EOF token.
ParseFinish ==
    /\ call.op = "ParseProgram"
    /\ ~parser.done
    /\ parser.curToken.Type = "EOF"
    /\ parser' = parseFinish(parser)
    /\ UNCHANGED <<src, lexer, rt, peer, call, resolved, ret>>
    /\ UNCHANGED <<manager, procs>>

\* Compiler.Compile(program), and NewRuntime on the table.
CompileCall ==
    /\ call.op = "ParseProgram"
    /\ parser.done
    /\ call' = [op |-> "Compile", key |-> "", args |-> <<>>]
    /\ rt' = NewRuntime(compileProgram(parser.program))
    /\ UNCHANGED <<src, lexer, parser, peer, resolved, ret>>
    /\ UNCHANGED <<manager, procs>>

\* Runtime.Get(key) on the runtime built from the compiled table.
CompiledGet(key) ==
    /\ call.op = "Compile"
    /\ call' = [op |-> "Get", key |-> key, args |-> <<>>]
    /\ resolved' = IF rt.Data[key].t \in {"string", "block"}
                   THEN Template(rt, key, <<>>) ELSE ""
    /\ ret' = Get(rt, key, <<>>)
    /\ UNCHANGED <<src, lexer, parser, rt, peer>>
    /\ UNCHANGED <<manager, procs>>

NextParse ==
    \/ ParseStep
    \/ ParseFinish
    \/ CompileCall
    \/ /\ call.op = "Compile"
       /\ \E key \in DOMAIN rt.Data : CompiledGet(key)

SpecParse == InitParse /\ [][NextParse]_vars

-----------------------------------------------------------------------------
(* Properties of the parser and of the compiled unit, stated over a source *)
(* made of units once ParseProgram has returned.                            *)

Units == src.parts

ParseDone == call.op = "ParseProgram" /\ parser.done

\* ParseProgram has returned, or the program has gone on to the compiler.
Parsed2 == call.op \in {"Compile", "Get"} \/ ParseDone

\* The positions of the source's units of the given kinds, in order.
RECURSIVE UnitsOfKind(_, _, _)
UnitsOfKind(units, kinds, i) ==
    IF i > Len(units) THEN <<>>
    ELSE (IF units[i].kind \in kinds THEN <<i>> ELSE <<>>)
            \o UnitsOfKind(units, kinds, i + 1)

\* The first assignment after position i, 0 when there is none.
NextAssign(units, i) ==
    LET later == {j \in (i + 1)..Len(units) : units[j].kind = "assign"}
    IN  IF later = {} THEN 0 ELSE CHOOSE j \in later : \A o \in later : j <= o

AssignKeys(units) == {units[j].key : j \in {j \in 1..Len(units) : units[j].kind = "assign"}}

\* Every statement of the source is a well-formed one of the grammar the
\* parser knows.
WellFormed(units) ==
    \A i \in 1..Len(units) : units[i].kind \notin {"malformed", "term", "stray"}

\* The annotations of the source's annotation units of the given kinds are
\* the program's annotations, in order, each with the key of the next
\* assignment as target, and with none of the source's keys when no
\* assignment follows.
AnnotationsTargetNext(kinds) ==
    LET idx == UnitsOfKind(Units, kinds, 1)
        anns == parser.program.AIAnnotations
    IN  /\ Len(anns) = Len(idx)
        /\ \A j \in 1..Len(idx) :
              LET k == NextAssign(Units, idx[j])
              IN  /\ anns[j].Type = Units[idx[j]].key
                  /\ k # 0 => anns[j].ForKey = Units[k].key
                  /\ k = 0 => anns[j].ForKey \notin AssignKeys(Units)

\* C12: every annotation comment is attached to the syntactically next
\* assignment and to no other key, whatever blank lines, comments, metadata
\* or section headers lie in between; never to an earlier assignment or to
\* one after the next.
C12_AnnotationTargetsNextAssignment ==
    (ParseDone /\ WellFormed(Units)) =>
        AnnotationsTargetNext({"annotation", "braced", "multiline"})

\* The same for sources none of whose annotation values opens with a brace:
\* it holds.
SingleLineAnnotationTargetsNext ==
    (ParseDone /\ WellFormed(Units)
        /\ UnitsOfKind(Units, {"braced", "multiline"}, 1) = <<>>) =>
        AnnotationsTargetNext({"annotation"})

SingleLineAnnotation_Witness ==
    /\ ParseDone
    /\ Units[1] = AnnotationUnit
    /\ Len(Units) = 3
    /\ Units[2].kind = "section"
    /\ Units[3].key = "greeting"
    /\ parser.program.AIAnnotations[1].ForKey = "greeting"

\* The translation entries of a compiled table.
TranslationKeys(data) == {k \in DOMAIN data : data[k].t \in {"string", "block"}}

\* The target keys of the compiled table's __ai entry.
AnnotatedKeys(data) ==
    IF "__ai" \in DOMAIN data /\ data["__ai"].t = "aimap"
    THEN DOMAIN data["__ai"].m ELSE {}

\* C13: in every parsed and compiled unit, every target key of the __ai map
\* is a translation key of the same compiled table, also when the assignment
\* lies inside a section, when the following assignment fails to parse and
\* when annotations are the last thing in the file.
C13_AnnotationKeysAreCompiled ==
    call.op = "Compile" => AnnotatedKeys(rt.Data) \subseteq TranslationKeys(rt.Data)

\* The same for well-formed sources without section headers and reserved
\* names in which every annotation has a plain value and an assignment after
\* it: it holds.
AnnotationKeysCompiledOutsideSections ==
    (call.op = "Compile" /\ WellFormed(Units)
        /\ UnitsOfKind(Units, {"braced", "multiline", "section"}, 1) = <<>>
        /\ \A i \in 1..Len(Units) :
              /\ Units[i] # ReservedUnit
              /\ Units[i].kind = "annotation" => NextAssign(Units, i) # 0) =>
        AnnotatedKeys(rt.Data) \subseteq TranslationKeys(rt.Data)

\* The statements a well-formed source is made of, and those of the parsed
\* program: kind and name, in order.
StmtHead(t, name) == [t |-> t, name |-> name]

RECURSIVE SourceHeads(_, _)
SourceHeads(units, i) ==
    IF i > Len(units) THEN <<>>
    ELSE (CASE units[i].kind = "assign"   -> <<StmtHead("Assign", units[i].key)>>
            [] units[i].kind = "metadata" -> <<StmtHead("Metadata", units[i].key)>>
            [] units[i].kind = "section"  -> <<StmtHead("Section", units[i].key)>>
            [] OTHER -> <<>>)
            \o SourceHeads(units, i + 1)

StatementHead(st) ==
    CASE st.t = "Assign"   -> StmtHead("Assign", st.Name)
      [] st.t = "Metadata" -> StmtHead("Metadata", st.Key)
      [] st.t = "Section"  -> StmtHead("Section", st.Name)
      [] st.t = "Import"   -> StmtHead("Import", st.Namespace)

ProgramHeads ==
    [i \in 1..Len(parser.program.Statements) |->
        StatementHead(parser.program.Statements[i])]

\* C14: a multi-line annotation, opened by "# AI_<Type>: {", continued on
\* comment lines and closed by "# }", is captured as one annotation whose
\* value is the text between the braces, bound to the assignment after the
\* closing line; that assignment and every statement after it are parsed as
\* statements.
C14_MultiLineAnnotation ==
    (ParseDone /\ WellFormed(Units)
        /\ UnitsOfKind(Units, {"braced"}, 1) = <<>>
        /\ UnitsOfKind(Units, {"multiline"}, 1) # <<>>) =>
        /\ AnnotationsTargetNext({"annotation", "multiline"})
        /\ \A j \in 1..Len(parser.program.AIAnnotations) :
              parser.program.AIAnnotations[j].Type = MultiLineUnit.key
                 => TrimSpace(parser.program.AIAnnotations[j].Value) = "warm"
        /\ ProgramHeads = SourceHeads(Units, 1)

\* C15: a source made of a valid assignment, one malformed assignment (in
\* string form or in logic-block form) and another valid assignment leaves
\* exactly one diagnostic and exactly the two valid assignments as
\* statements.
C15_OneDiagnosticTwoStatements ==
    (ParseDone /\ Len(Units) = 3
        /\ Units[1] \in AssignUnits /\ Units[2] \in MalformedUnits
        /\ Units[3] \in AssignUnits) =>
        /\ Len(parser.errors) = 1
        /\ ProgramHeads = <<StmtHead("Assign", Units[1].key), StmtHead("Assign", Units[3].key)>>

\* The same with the malformed assignment in string form only: it holds.
StringFormOneDiagnostic ==
    (ParseDone /\ Len(Units) = 3
        /\ Units[1] \in AssignUnits /\ Units[2] \in MalformedString
        /\ Units[3] \in AssignUnits) =>
        /\ Len(parser.errors) = 1
        /\ ProgramHeads = <<StmtHead("Assign", Units[1].key), StmtHead("Assign", Units[3].key)>>

-----------------------------------------------------------------------------
(* The parser on arbitrary input: the source is a sequence of fragments,   *)
(* pieces of statements in any order, a zero byte among them.               *)

\* Most fragments in one input.
MaxFragments == 3

FragmentPool ==
    {Bytes("a = "), Bytes("\"s\"\n"), Bytes("k(n) {\n"),
     Bytes("[one] => \"x\"\n"), Bytes("[1.."), Bytes("}"), Bytes("["),
     Bytes("# AI_X: {\n"), Bytes("@import "), Bytes("= 5 , :\n"), <<NUL>>}

FragmentLists == UNION {[1..k -> FragmentPool] : k \in 1..MaxFragments}

RECURSIVE JoinFragments(_, _)
JoinFragments(fragments, i) ==
    IF i > Len(fragments) THEN <<>>
    ELSE fragments[i] \o JoinFragments(fragments, i + 1)

FragmentSource(fragments) ==
    [kind |-> "fragments", parts |-> fragments, prog |-> Program(<<>>, EmptyMap),
     bytes |-> JoinFragments(fragments, 1)]

\* No input has been handed to the front end yet.
InitSoup ==
    /\ src = FragmentSource(<<>>)
    /\ lexer = NoLexer
    /\ parser = NoParser
    /\ call = NoCall
    /\ rt = NoRuntime
    /\ peer = NoRuntime
    /\ resolved = ""
    /\ ret = ""
    /\ manager = NoManager
    /\ procs = NoProcs

\* NewParser(NewLexer(input)) on an input; ParseProgram is about to start.
NewParserCall(fragments) ==
    /\ call.op = "none"
    /\ src' = FragmentSource(fragments)
    /\ lexer' = NewLexer(src'.bytes)
    /\ parser' = NewParser(lexer')
    /\ call' = [op |-> "ParseProgram", key |-> "", args |-> <<>>]
    /\ UNCHANGED <<rt, peer, resolved, ret>>
    /\ UNCHANGED <<manager, procs>>

NextSoup ==
    \/ \E fragments \in FragmentLists : NewParserCall(fragments)
    \/ ParseStep
    \/ ParseFinish

\* The statement loop has another iteration to run.
ParseStepEnabled ==
    /\ call.op = "ParseProgram"
    /\ ~parser.done
    /\ parser.curToken.Type # "EOF"

\* WF_vars(ParseStep) written out. An iteration always changes the parser
\* (it takes a token), so ENABLED <<ParseStep>>_vars is ParseStepEnabled.
ParseStepFair == []<>(~ParseStepEnabled) \/ []<><<ParseStep>>_vars

\* ParseProgram runs on: its loop is not suspended between iterations, and
\* it returns once the loop has ended.
SpecSoup ==
    InitSoup /\ [][NextSoup]_vars /\ ParseStepFair /\ WF_vars(ParseFinish)

\* A message that carries a line number: "line " and a digit.
HasLineNumber(msg) ==
    \E i \in 1..Len(msg) :
        /\ i + 5 <= Len(msg)
        /\ SubSeq(msg, i, i + 4) = "line "
        /\ SubSeq(msg, i + 5, i + 5) \in Chars(Digits)

\* Every completed iteration of the parser's loops took a token from the
\* lexer (NewParser takes the first two), and every recorded diagnostic
\* carries a line number.
ParserConsumes ==
    call.op = "ParseProgram" =>
        /\ parser.pulls >= parser.iters + 2
        /\ \A i \in 1..Len(parser.errors) : HasLineNumber(parser.errors[i])

\* An iteration of the statement loop takes at least one token, never
\* shortens the error list or the statement list, and ParseProgram returns
\* only at the EOF token.
ParserAdvances ==
    call.op = "ParseProgram" =>
        /\ parser'.pulls > parser.pulls \/ (parser'.done /\ ~parser.done)
        /\ Len(parser'.errors) >= Len(parser.errors)
        /\ Len(parser'.program.Statements) >= Len(parser.program.Statements)
        /\ parser'.done => parser.curToken.Type = "EOF"

\* C16: ParseProgram terminates on every finite input and returns a Program:
\* every iteration of the statement loop, of synchronize, of the block-case
\* loop and of the multi-line annotation loop consumes at least one token
\* until EOF, and every recorded parse failure is a message with a line
\* number.
C16_ParserTerminates ==
    /\ []ParserConsumes
    /\ [][ParserAdvances]_vars
    /\ (call.op = "ParseProgram") ~> ParseDone

\* C16 witness: ParseProgram returned after iterations of the block-case
\* loop that ended in a diagnostic, on an input with a zero byte.
C16_Witness ==
    /\ ParseDone
    /\ src.parts = <<Bytes("k(n) {\n"), Bytes("[1.."), <<NUL>>>>
    /\ Len(parser.errors) >= 1
    /\ parser.iters >= 2

-----------------------------------------------------------------------------
(* The compiler on Programs: statement lists of section headers,            *)
(* assignments and metadata in any order.                                   *)

\* Most statements in one Program.
MaxStatements == 4

StatementPool ==
    {SectionStatement("ui"), SectionStatement("menu"),
     AssignString("title", "T"), AssignString("ok", "OK"),
     AssignBlock("count", "n", <<LiteralCase("one", "{n} file")>>),
     Metadata("lang", "pl")}

StatementLists == UNION {[1..k -> StatementPool] : k \in 1..MaxStatements}

AstSource(statements) ==
    [kind |-> "ast", parts |-> statements, prog |-> Program(statements, EmptyMap),
     bytes |-> <<>>]

InitCompile ==
    /\ \E statements \in StatementLists : src = AstSource(statements)
    /\ lexer = NoLexer
    /\ parser = NoParser
    /\ call = NoCall
    /\ rt = NoRuntime
    /\ peer = NoRuntime
    /\ resolved = ""
    /\ ret = ""
    /\ manager = NoManager
    /\ procs = NoProcs

\* Compiler.compileProgram(program), and NewRuntime on the table.
CompileProgramCall ==
    /\ call.op = "none"
    /\ call' = [op |-> "Compile", key |-> "", args |-> <<>>]
    /\ rt' = NewRuntime(compileProgram(src.prog))
    /\ UNCHANGED <<src, lexer, parser, peer, resolved, ret>>
    /\ UNCHANGED <<manager, procs>>

NextCompile ==
    \/ CompileProgramCall
    \/ /\ call.op = "Compile"
       /\ \E key \in DOMAIN rt.Data : CompiledGet(key)

SpecCompile == InitCompile /\ [][NextCompile]_vars

Compiled == call.op \in {"Compile", "Get"}

\* The name of the last section header before statement i ("" when none).
SectionBefore(stmts, i) ==
    LET headers == {j \in 1..(i - 1) : stmts[j].t = "Section"}
    IN  IF headers = {} THEN ""
        ELSE stmts[CHOOSE j \in headers : \A k \in headers : k <= j].Name

\* The key the assignment at position i is expected under.
ExpectedKey(stmts, i) ==
    IF SectionBefore(stmts, i) = "" THEN stmts[i].Name
    ELSE SectionBefore(stmts, i) \o "." \o stmts[i].Name

Assignments(stmts) == {i \in 1..Len(stmts) : stmts[i].t = "Assign"}

\* C17: every assignment of a compiled Program is found under
\* section + "." + name, section being the name of the last header before
\* it, and under its bare name when no header precedes it; a header replaces
\* the section before it. The table has no other translation keys, and a
\* key holds the value of the last assignment compiled to it.
C17_KeysAreSectionDotName ==
    Compiled =>
        LET stmts == src.prog.Statements
        IN  /\ TranslationKeys(rt.Data)
                  = {ExpectedKey(stmts, i) : i \in Assignments(stmts)}
            /\ \A i \in Assignments(stmts) :
                  (\A j \in Assignments(stmts) :
                        j > i => ExpectedKey(stmts, j) # ExpectedKey(stmts, i))
                    => rt.Data[ExpectedKey(stmts, i)] = compileAssign(stmts[i])

\* C17 witness: one name assigned under a section and under the section
\* that replaces it.
C17_Witness ==
    /\ Compiled
    /\ src.prog.Statements
          = <<SectionStatement("ui"), AssignString("title", "T"),
              SectionStatement("menu"), AssignString("title", "T")>>
    /\ TranslationKeys(rt.Data) = {"ui.title", "menu.title"}

-----------------------------------------------------------------------------
(* The reserved entries of the compiled table.                              *)

ReservedKeys == {"__meta", "__terms", "__ai", "__imports"}

\* C18: in every compiled table no assignment of the parsed program is
\* compiled to a reserved key, and no reserved entry holds a translation
\* value.
C18_ReservedKeysNeverCollide ==
    Compiled =>
        LET stmts == parser.program.Statements
        IN  /\ TranslationKeys(rt.Data) \cap ReservedKeys = {}
            /\ \A i \in Assignments(stmts) :
                    /\ ExpectedKey(stmts, i) \notin ReservedKeys
                    /\ ExpectedKey(stmts, i) \in TranslationKeys(rt.Data)

\* The same for sources in which no assignment is named like a reserved
\* key: it holds.
ReservedKeysApartFromReservedNames ==
    (Compiled /\ \A i \in 1..Len(Units) : Units[i] # ReservedUnit) =>
        LET stmts == parser.program.Statements
        IN  /\ TranslationKeys(rt.Data) \cap ReservedKeys = {}
            /\ \A i \in Assignments(stmts) :
                    /\ ExpectedKey(stmts, i) \notin ReservedKeys
                    /\ ExpectedKey(stmts, i) \in TranslationKeys(rt.Data)

-----------------------------------------------------------------------------
(* Term definitions in the source.                                          *)

\* C19: a term definition -brand = "Acme" in a source of term definitions
\* and assignments is parsed as a term definition and not as a translation
\* assignment, is compiled into the __terms entry as brand -> Acme, and the
\* Runtime built from the table replaces {-brand} by Acme.
C19_TermDefinitionCompiled ==
    (/\ Compiled
     /\ \E i \in 1..Len(Units) : Units[i] = TermUnit
     /\ \A i \in 1..Len(Units) : Units[i] \in AssignUnits \cup {TermUnit}) =>
        /\ "brand" \in DOMAIN parser.program.Terms
        /\ "brand" \notin TranslationKeys(rt.Data)
        /\ "__terms" \in DOMAIN rt.Data
        /\ rt.Data["__terms"] = StrMapVal([k \in {"brand"} |-> "Acme"])
        /\ (call.op = "Get" /\ call.key = "farewell") => ret = "Bye Acme"

-----------------------------------------------------------------------------
(* The lexer on arbitrary bytes, one NextToken call at a time. ret holds    *)
(* the token the last call returned.                                        *)

\* Most bytes in one input.
MaxInput == 3

\* Most calls made with the read position past the end of the input
\* (readChar keeps incrementing readPosition there).
MaxOverrun == 6

\* A letter, a digit, blanks, a newline, a dot, a quote, the start of a
\* comment, two bytes no token starts with, and a zero byte.
ByteAlphabet == {"a", "1", " ", "\n", ".", "\"", "#", "$", "-", NUL}

\* The bytes of the alphabet that start no token.
Unrecognized == {"$", "-"}

Inputs == UNION {[1..k -> ByteAlphabet] : k \in 0..MaxInput}

\* Most bytes in an input of letters, digits and dots.
MaxDotted == 5

\* The longer inputs of names, numbers and dots.
DottedInputs == UNION {[1..k -> {"a", "1", "."}] : k \in (MaxInput + 1)..MaxDotted}

\* The inputs of the lexer's tests for names, numbers and ranges.
ExampleInputs == {Bytes("dotted.key.test"), Bytes("1..3"), Bytes("a..b")}

ByteSource(input) ==
    [kind |-> "bytes", parts |-> input, prog |-> Program(<<>>, EmptyMap),
     bytes |-> input]

\* No input has been handed to a lexer yet.
InitLex ==
    /\ src = ByteSource(<<>>)
    /\ lexer = NoLexer
    /\ parser = NoParser
    /\ call = NoCall
    /\ rt = NoRuntime
    /\ peer = NoRuntime
    /\ resolved = ""
    /\ ret = ZeroToken
    /\ manager = NoManager
    /\ procs = NoProcs

\* NewLexer(input).
NewLexerCall(input) ==
    /\ call.op = "none"
    /\ src' = ByteSource(input)
    /\ lexer' = NewLexer(input)
    /\ call' = [op |-> "NewLexer", key |-> "", args |-> <<>>]
    /\ UNCHANGED <<parser, rt, peer, resolved, ret>>
    /\ UNCHANGED <<manager, procs>>

\* One call of Lexer.NextToken.
NextTokenCall ==
    /\ call.op \in {"NewLexer", "NextToken"}
    /\ lexer.readPosition <= Len(src.bytes) + MaxOverrun
    /\ call' = [op |-> "NextToken", key |-> "", args |-> <<>>]
    /\ lexer' = NextToken(lexer).l
    /\ ret' = NextToken(lexer).tok
    /\ UNCHANGED <<src, parser, rt, peer, resolved>>
    /\ UNCHANGED <<manager, procs>>

\* A comment line before a name, and a triple-quoted string of two lines
\* before a name.
LineInputs == {Bytes("# c\nkey"), Bytes("\"\"\"a\nb\"\"\" c")}

LexInputs == Inputs \cup DottedInputs \cup ExampleInputs \cup LineInputs

NextLex ==
    \/ \E input \in LexInputs : NewLexerCall(input)
    \/ NextTokenCall

\* Another NextToken call can be made.
NextTokenEnabled ==
    /\ call.op \in {"NewLexer", "NextToken"}
    /\ lexer.readPosition <= Len(src.bytes) + MaxOverrun

\* WF_vars(NextTokenCall) written out. A call always changes the lexer (it
\* reads a byte), so ENABLED <<NextTokenCall>>_vars is NextTokenEnabled.
NextTokenFair == []<>(~NextTokenEnabled) \/ []<><<NextTokenCall>>_vars

\* The caller makes a lexer and keeps asking it for tokens.
SpecLex ==
    /\ InitLex /\ [][NextLex]_vars
    /\ WF_vars(\E input \in LexInputs : NewLexerCall(input))
    /\ NextTokenFair

\* One call: the read position does not decrease, a token comes back, a
\* byte that starts no token comes back as an ILLEGAL token of that byte
\* with the lexer on the byte after it, and EOF is followed by EOF.
LexerCall ==
    call.op \in {"NewLexer", "NextToken"} =>
    /\ lexer'.position >= lexer.position
    /\ lexer'.readPosition >= lexer.readPosition
    /\ ret'.Type # ""
    /\ skipWhitespace(lexer).ch \in Unrecognized =>
            /\ ret' = newToken("ILLEGAL", skipWhitespace(lexer).ch,
                                skipWhitespace(lexer).line,
                                skipWhitespace(lexer).column)
            /\ lexer'.position = skipWhitespace(lexer).position + 1
    /\ ret.Type = "EOF" => ret'.Type = "EOF"

\* EOF has come back only with every byte of the input behind the lexer.
EOFAtEndOnly == ret.Type = "EOF" => lexer.position >= Len(src.bytes)

\* C20: over the NextToken calls on any input the read position never
\* decreases, each call returns one token, an unrecognized byte gives an
\* ILLEGAL token and scanning goes on with the next byte, EOF is returned
\* after finitely many calls and only once the input is exhausted, and every
\* call after that returns EOF.
C20_LexerReachesEOF ==
    /\ [][LexerCall]_vars
    /\ []EOFAtEndOnly
    /\ (call.op = "NewLexer") ~> (ret.Type = "EOF")

InputHasZeroByte == \E i \in 1..Len(src.bytes) : src.bytes[i] = NUL

\* The same on inputs without a zero byte: it holds.
LexerReachesEOFWithoutZeroByte ==
    /\ [][~InputHasZeroByte => LexerCall]_vars
    /\ [](~InputHasZeroByte => EOFAtEndOnly)
    /\ (call.op = "NewLexer") ~> (ret.Type = "EOF")

-----------------------------------------------------------------------------
(* Names, numbers and the range operator. *)

HasDoubleDot(s) == \E i \in 1..(Len(s) - 1) : SubSeq(s, i, i + 1) = ".."

\* The token a call returns when it is a name or a number: it is the bytes
\* from the first byte after the blanks to the byte the lexer is left on;
\* a name holds no double dot and ends before a byte that is neither a
\* letter, a digit, an underscore nor a single dot; a number holds at most
\* one dot and ends before a dot only when that dot is its second one or
\* is followed by another dot.
DottedToken ==
    call.op \in {"NewLexer", "NextToken"} =>
    /\ ret'.Type \in {"IDENT", "NUMBER"} =>
            /\ ret'.Literal = Slice(src.bytes, skipWhitespace(lexer).position,
                                    lexer'.position)
            /\ ret'.Literal # ""
            /\ ~HasDoubleDot(ret'.Literal)
            /\ ~isDigit(lexer'.ch)
    /\ ret'.Type = "IDENT" =>
            /\ ~isLetter(lexer'.ch)
            /\ lexer'.ch = "." => peekChar(lexer') = "."
    /\ ret'.Type = "NUMBER" =>
            /\ CountByte(ret'.Literal, ".") <= 1
            /\ (lexer'.ch = "." /\ CountByte(ret'.Literal, ".") = 0)
                    => peekChar(lexer') = "."

\* The call made on `input` at byte `at` returns the token of that type
\* and literal.
Lexes(input, at, tokenType, literal) ==
    (/\ call.op \in {"NewLexer", "NextToken"}
     /\ src.bytes = Bytes(input)
     /\ lexer.position = at)
        => (ret'.Type = tokenType /\ ret'.Literal = literal)

RangeExamples ==
    /\ Lexes("dotted.key.test", 0, "IDENT", "dotted.key.test")
    /\ Lexes("dotted.key.test", 15, "EOF", "")
    /\ Lexes("1..3", 0, "NUMBER", "1")
    /\ Lexes("1..3", 1, "..", "..")
    /\ Lexes("1..3", 3, "NUMBER", "3")
    /\ Lexes("1..3", 4, "EOF", "")
    /\ Lexes("a..b", 0, "IDENT", "a")
    /\ Lexes("a..b", 1, "..", "..")
    /\ Lexes("a..b", 3, "IDENT", "b")
    /\ Lexes("a..b", 4, "EOF", "")

\* C21: a name takes single dots inside it and stops before a double dot, a
\* number takes at most one dot and never a dot that another dot follows,
\* so `1..3` is NUMBER(1), DOT_RANGE, NUMBER(3), `a..b` is IDENT(a),
\* DOT_RANGE, IDENT(b) and `dotted.key.test` is one IDENT.
C21_RangesApartFromDottedNames == [][DottedToken /\ RangeExamples]_vars

\* The last token of `1..3` has come back after the range operator.
C21_Witness ==
    /\ src.bytes = Bytes("1..3")
    /\ ret = newToken("NUMBER", "3", 1, 5)
    /\ lexer.position = 4

-----------------------------------------------------------------------------
(* One Runtime shared by two goroutines without synchronization: one runs  *)
(* Get, whose argument pass reads r.escapeHTML in the callback of each     *)
(* match, the other calls SetEscapeHTML. call holds the Get in progress:   *)
(* the runtime as it was when the call began (r0), the template after the  *)
(* term pass (s), the index the argument pass has reached (i) and the      *)
(* output written so far (out).                                            *)

InitRace ==
    /\ \E parts \in EscPartLists : src = TemplateSource(parts, EscGlossary)
    /\ \E escapeHTML \in BOOLEAN :
          rt = NewRuntimeWithOptions(compileProgram(src.prog), escapeHTML)
    /\ peer = NoRuntime
    /\ call = NoCall
    /\ resolved = ""
    /\ ret = ""
    /\ lexer = NoLexer
    /\ parser = NoParser
    /\ manager = NoManager
    /\ procs = NoProcs

\* The first index >= i of s where argRe matches (Len(s) + 1 if none).
RECURSIVE nextArgMatch(_, _)
nextArgMatch(s, i) ==
    IF i > Len(s) \/ argMatchEnd(s, i) > 0 THEN i ELSE nextArgMatch(s, i + 1)

\* Get up to the argument pass: the key is looked up and the term pass
\* run. Without an argument, or on an empty template, there is no argument
\* pass.
GetBegin(args) ==
    /\ call.op = "none"
    /\ resolved' = Template(rt, MsgKey, args)
    /\ call' = [op |-> "Get", key |-> MsgKey, args |-> args, r0 |-> rt,
                raced |-> FALSE,
                s |-> replaceTerms(resolved', 1, rt.Terms),
                i |-> IF Len(args) > 0 /\ args[1] # Nil
                      THEN 1 ELSE Len(replaceTerms(resolved', 1, rt.Terms)) + 1,
                out |-> IF Len(args) > 0 /\ args[1] # Nil
                        THEN "" ELSE replaceTerms(resolved', 1, rt.Terms)]
    /\ UNCHANGED <<src, rt, ret>>
    /\ UNCHANGED frontEnd
    /\ UNCHANGED <<manager, procs>>

\* The argument pass up to and including its next match: the text before
\* the match is copied, the callback reads r.escapeHTML and gives the
\* replacement.
GetStep ==
    /\ call.op = "Get"
    /\ call.i <= Len(call.s)
    /\ \E j \in {nextArgMatch(call.s, call.i)} :
          call' = [call EXCEPT
                     !.out = call.out \o SubSeq(call.s, call.i, j - 1)
                               \o (IF j <= Len(call.s)
                                   THEN argReplacement(call.args[1], rt.escapeHTML,
                                            SubSeq(call.s, j, argMatchEnd(call.s, j)))
                                   ELSE ""),
                     !.i = IF j <= Len(call.s) THEN argMatchEnd(call.s, j) + 1
                           ELSE j]
    /\ UNCHANGED <<src, rt, resolved, ret>>
    /\ UNCHANGED frontEnd
    /\ UNCHANGED <<manager, procs>>

\* Get returns what the passes wrote.
GetReturn ==
    /\ call.op = "Get"
    /\ call.i > Len(call.s)
    /\ ret' = call.out
    /\ call' = [call EXCEPT !.op = "Returned"]
    /\ UNCHANGED <<src, rt, resolved>>
    /\ UNCHANGED frontEnd
    /\ UNCHANGED <<manager, procs>>

\* SetEscapeHTML called by the other goroutine, at any moment.
SetEscapeHTMLRacing(escape) ==
    /\ rt' = SetEscapeHTML(rt, escape)
    /\ call' = IF call.op = "Get" /\ escape # rt.escapeHTML
               THEN [call EXCEPT !.raced = TRUE] ELSE call
    /\ UNCHANGED <<src, resolved, ret>>
    /\ UNCHANGED frontEnd
    /\ UNCHANGED <<manager, procs>>

NextRace ==
    \/ \E args \in EscArgPool : GetBegin(args)
    \/ GetStep
    \/ GetReturn
    \/ \E escape \in BOOLEAN : SetEscapeHTMLRacing(escape)
    \/ Return

SpecRace == InitRace /\ [][NextRace]_vars

\* No step changes the table, the terms, the language or the escaping mode
\* of the constructed Runtime.
RuntimeUnchanged == rt' = rt

\* A finished Get returned what Get gives when run alone on the Runtime it
\* was called on.
GetAsAlone ==
    call.op = "Returned" => ret = Get(call.r0, call.key, call.args)

\* C22: a constructed Runtime is never mutated in place (no operation
\* changes its table, terms, language or escaping mode), so a Get that runs
\* interleaved with other operations on the same Runtime returns what it
\* returns when run alone.
C22_RuntimeNeverMutated == [][RuntimeUnchanged]_vars /\ []GetAsAlone

\* The Get calls no SetEscapeHTML call changed the mode under do return
\* what Get returns alone.
GetAsAloneUnlessRaced == (call.op = "Returned" /\ ~call.raced) => GetAsAlone

\* A Get returned a text that Get alone gives in neither mode: one value
\* escaped and one not.
TornOutput ==
    /\ call.op = "Returned"
    /\ \A escape \in BOOLEAN :
          ret # Get(SetEscapeHTML(rt, escape), call.key, call.args)

-----------------------------------------------------------------------------
(* The Manager: runtimes by language behind a sync.RWMutex. One goroutine  *)
(* (the watch loop) reloads, another calls Manager.Get. procs.load and     *)
(* procs.get hold where each is; LoadAll, which reads and compiles files,  *)
(* takes the time the loader spends at "loadAll".                          *)

\* The languages the repository has files for.
ManagerLangs == {"pl", "en"}

\* The compiled tables a language's files give.
TablePool ==
    {"hello" :> StringVal("Hello"),
     "hello" :> StringVal("Czesc") @@ "ok" :> StringVal("ok"),
     "ok" :> StringVal("Okay")}

\* What Repository.LoadAll can return: tables for some of the languages.
RepoPool == UNION {[L -> TablePool] : L \in SUBSET ManagerLangs}

\* Config.DefaultLocale.
DefaultLocales == {"", "pl"}

\* The languages and keys Manager.Get is called with.
RequestLangs == {"pl", "pl-PL", "en", "de"}
RequestKeys == {"hello", "ok", "bye"}

\* for lang, data := range langData { newRuntimes[lang] = NewRuntime(data) }
Runtimes(langData) == [lang \in DOMAIN langData |-> NewRuntime(langData[lang])]

\* Manager.Get between RLock and RUnlock.
ManagerGet(m, lang, key, args) ==
    IF lang \in DOMAIN m.runtimes /\ Get(m.runtimes[lang], key, args) # key
    THEN Get(m.runtimes[lang], key, args)
    ELSE IF /\ Len(lang) > 2
            /\ SubSeq(lang, 1, 2) \in DOMAIN m.runtimes
            /\ Get(m.runtimes[SubSeq(lang, 1, 2)], key, args) # key
    THEN Get(m.runtimes[SubSeq(lang, 1, 2)], key, args)
    ELSE IF lang # m.defaultLang /\ m.defaultLang \in DOMAIN m.runtimes
    THEN Get(m.runtimes[m.defaultLang], key, args)
    ELSE key

IdleLoad == [pc |-> "idle", langData |-> EmptyMap]
IdleGet == [pc |-> "idle", lang |-> "", key |-> ""]

\* NewManagerWithRepo has returned: the first Load is done.
InitManager ==
    /\ \E langData \in RepoPool, locale \in DefaultLocales :
          manager = [mu |-> [writer |-> FALSE, readers |-> 0],
                     runtimes |-> Runtimes(langData),
                     defaultLang |-> IF locale = "" THEN "en" ELSE locale]
    /\ procs = [load |-> IdleLoad, get |-> IdleGet]
    /\ src = [kind |-> "repository", parts |-> <<>>,
              prog |-> Program(<<>>, EmptyMap)]
    /\ rt = NoRuntime
    /\ peer = NoRuntime
    /\ lexer = NoLexer
    /\ parser = NoParser
    /\ call = NoCall
    /\ resolved = ""
    /\ ret = ""

\* watchLoop saw a changed file and calls m.Load().
WatchReload ==
    /\ procs.load.pc = "idle"
    /\ procs' = [procs EXCEPT !.load.pc = "lock"]
    /\ UNCHANGED <<manager, src, rt, peer, lexer, parser, call, resolved, ret>>

\* Load: m.mu.Lock().
LoadLock ==
    /\ procs.load.pc = "lock"
    /\ ~manager.mu.writer
    /\ manager.mu.readers = 0
    /\ manager' = [manager EXCEPT !.mu.writer = TRUE]
    /\ procs' = [procs EXCEPT !.load.pc = "loadAll"]
    /\ UNCHANGED <<src, rt, peer, lexer, parser, call, resolved, ret>>

\* Load: m.repo.LoadAll() returns the tables.
LoadAllReturns(langData) ==
    /\ procs.load.pc = "loadAll"
    /\ procs' = [procs EXCEPT !.load = [pc |-> "swap", langData |-> langData]]
    /\ UNCHANGED <<manager, src, rt, peer, lexer, parser, call, resolved, ret>>

\* Load: m.repo.LoadAll() returns an error, and Load returns it.
LoadAllFails ==
    /\ procs.load.pc = "loadAll"
    /\ procs' = [procs EXCEPT !.load.pc = "unlock"]
    /\ UNCHANGED <<manager, src, rt, peer, lexer, parser, call, resolved, ret>>

\* Load: the new runtimes are made and m.runtimes is replaced.
LoadSwap ==
    /\ procs.load.pc = "swap"
    /\ manager' = [manager EXCEPT !.runtimes = Runtimes(procs.load.langData)]
    /\ procs' = [procs EXCEPT !.load = [pc |-> "unlock", langData |-> EmptyMap]]
    /\ UNCHANGED <<src, rt, peer, lexer, parser, call, resolved, ret>>

\* Load: the deferred m.mu.Unlock().
LoadUnlock ==
    /\ procs.load.pc = "unlock"
    /\ manager' = [manager EXCEPT !.mu.writer = FALSE]
    /\ procs' = [procs EXCEPT !.load.pc = "idle"]
    /\ UNCHANGED <<src, rt, peer, lexer, parser, call, resolved, ret>>

\* A goroutine calls Manager.Get(lang, key).
ManagerGetCall(lang, key) ==
    /\ procs.get.pc = "idle"
    /\ procs' = [procs EXCEPT !.get = [pc |-> "rlock", lang |-> lang, key |-> key]]
    /\ UNCHANGED <<manager, src, rt, peer, lexer, parser, call, resolved, ret>>

\* Get: m.mu.RLock().
GetRLock ==
    /\ procs.get.pc = "rlock"
    /\ ~manager.mu.writer
    /\ manager' = [manager EXCEPT !.mu.readers = manager.mu.readers + 1]
    /\ procs' = [procs EXCEPT !.get.pc = "locked"]
    /\ UNCHANGED <<src, rt, peer, lexer, parser, call, resolved, ret>>

\* Get: the fallback chain.
GetLookup ==
    /\ procs.get.pc = "locked"
    /\ ret' = ManagerGet(manager, procs.get.lang, procs.get.key, <<>>)
    /\ procs' = [procs EXCEPT !.get.pc = "runlock"]
    /\ UNCHANGED <<manager, src, rt, peer, lexer, parser, call, resolved>>

\* Get: the deferred m.mu.RUnlock(); the caller has the result.
GetRUnlock ==
    /\ procs.get.pc = "runlock"
    /\ manager' = [manager EXCEPT !.mu.readers = manager.mu.readers - 1]
    /\ procs' = [procs EXCEPT !.get.pc = "returned"]
    /\ UNCHANGED <<src, rt, peer, lexer, parser, call, resolved, ret>>

\* The caller goes on.
GetDone ==
    /\ procs.get.pc = "returned"
    /\ procs' = [procs EXCEPT !.get = IdleGet]
    /\ ret' = ""
    /\ UNCHANGED <<manager, src, rt, peer, lexer, parser, call, resolved>>

NextManager ==
    \/ WatchReload
    \/ LoadLock
    \/ \E langData \in RepoPool : LoadAllReturns(langData)
    \/ LoadAllFails
    \/ LoadSwap
    \/ LoadUnlock
    \/ \E lang \in RequestLangs, key \in RequestKeys : ManagerGetCall(lang, key)
    \/ GetRLock
    \/ GetLookup
    \/ GetRUnlock
    \/ GetDone

SpecManager == InitManager /\ [][NextManager]_vars

\* LoadAll runs without the manager's lock.
LoadAllOffTheLock == procs.load.pc = "loadAll" => ~manager.mu.writer

\* The write lock is held only to replace the runtimes reference.
WriteLockForSwapOnly == manager.mu.writer => procs.load.pc \in {"swap", "unlock"}

\* The read lock is held only within a Get call.
ReadLockForOneGet ==
    manager.mu.readers = (IF procs.get.pc \in {"locked", "runlock"} THEN 1 ELSE 0)

\* A Get that waits for the read lock while LoadAll runs can take it.
GetNotBlockedByLoadAll ==
    (procs.get.pc = "rlock" /\ procs.load.pc = "loadAll") => ENABLED GetRLock

\* C23: a reload loads and compiles without holding the manager's lock and
\* takes the write lock only to replace the runtimes; readers hold the read
\* lock for one Get call only; so a concurrent Manager.Get is never blocked
\* while Repository.LoadAll runs.
C23_ReloadSwapsUnderLockOnly ==
    /\ LoadAllOffTheLock
    /\ WriteLockForSwapOnly
    /\ ReadLockForOneGet
    /\ GetNotBlockedByLoadAll

\* The runtime of a language, if it is loaded and holds the key.
Holds(m, lang, key) == lang \in DOMAIN m.runtimes /\ key \in DOMAIN m.runtimes[lang].Data

\* The fallback chain of a requested language.
FallbackChain(m, lang) ==
    <<lang>> \o (IF Len(lang) > 2 THEN <<SubSeq(lang, 1, 2)>> ELSE <<>>)
             \o <<m.defaultLang>>

\* The translation of the first runtime of the chain that holds the key,
\* the key when none does.
FirstInChain(m, lang, key) ==
    LET chain == FallbackChain(m, lang)
        holders == {i \in 1..Len(chain) : Holds(m, chain[i], key)}
    IN  IF holders = {} THEN key
        ELSE Get(m.runtimes[chain[CHOOSE i \in holders : \A j \in holders : i <= j]],
                 key, <<>>)

\* C26: the result of Manager.Get(lang, key) is the translation of the
\* first of the requested language, its 2-letter prefix and the default
\* language whose runtime holds the key, and the key itself only when none
\* of them holds it. (Stated where the read lock is still held: the
\* runtimes are those the call looked in.)
C26_FallbackChain ==
    procs.get.pc = "runlock" =>
        ret = FirstInChain(manager, procs.get.lang, procs.get.key)

\* The same for keys whose translation in the runtimes of the chain is not
\* the key's own text.
TranslatesAsKey(m, lang, key) ==
    \E i \in 1..Len(FallbackChain(m, lang)) :
        /\ Holds(m, FallbackChain(m, lang)[i], key)
        /\ Get(m.runtimes[FallbackChain(m, lang)[i]], key, <<>>) = key

FallbackChainUnlessKeyText ==
    (/\ procs.get.pc = "runlock"
     /\ ~TranslatesAsKey(manager, procs.get.lang, procs.get.key))
        => ret = FirstInChain(manager, procs.get.lang, procs.get.key)

-----------------------------------------------------------------------------
(* The two passes of interpolate, each on the template as it was resolved. *)

\* The template with every term reference and every placeholder found in it
\* replaced, the replacements themselves left as they are. (A match of
\* either pattern holds no brace inside, so matches of the two never overlap.)
RECURSIVE replaceIndependently(_, _, _, _)
replaceIndependently(s, i, r, arg) ==
    IF i > Len(s) THEN ""
    ELSE IF termMatchEnd(s, i) > 0
    THEN termReplacement(r.Terms, SubSeq(s, i, termMatchEnd(s, i)))
            \o replaceIndependently(s, termMatchEnd(s, i) + 1, r, arg)
    ELSE IF arg # Nil /\ argMatchEnd(s, i) > 0
    THEN argReplacement(arg, r.escapeHTML, SubSeq(s, i, argMatchEnd(s, i)))
            \o replaceIndependently(s, argMatchEnd(s, i) + 1, r, arg)
    ELSE SubSeq(s, i, i) \o replaceIndependently(s, i + 1, r, arg)

\* C24: the output of interpolate is the resolved template with the term
\* references and the placeholders of the template itself replaced: a
\* glossary value or an argument value put in by one pass is not rewritten
\* by the other.
C24_PassesIndependent ==
    GotTemplate => ret = replaceIndependently(resolved, 1, rt, InterpArg)

\* The same for templates whose glossary values bring no brace: it holds.
PassesIndependentOnPlainTerms ==
    (GotTemplate /\ PlainTermValues) =>
        ret = replaceIndependently(resolved, 1, rt, InterpArg)

-----------------------------------------------------------------------------
(* The line of a token. *)

\* How many of the first n bytes of the input are newlines.
NewlinesBefore(input, n) ==
    Cardinality({i \in 1..n : i <= Len(input) /\ input[i] = "\n"})

\* The token a call returns has the line its first byte is on.
TokenLine ==
    call.op \in {"NewLexer", "NextToken"} =>
        ret'.Line = 1 + NewlinesBefore(src.bytes, skipWhitespace(lexer).position)

\* C25: the Line of every token is the 1-indexed line the token begins on:
\* 1 plus the number of newlines before its first byte, on every input,
\* tokens after a comment line and tokens after or being a triple-quoted
\* string of several lines included.
C25_TokenLineIsWhereItBegins == [][TokenLine]_vars

\* The input has neither a comment nor a string.
NoCommentNoString ==
    \A i \in 1..Len(src.bytes) : src.bytes[i] \notin {"#", "\""}

\* The same on inputs without comments and strings: it holds.
TokenLineWithoutCommentsAndStrings == [][NoCommentNoString => TokenLine]_vars

-----------------------------------------------------------------------------
(* Input the parser passes over. *)

\* The units of the source that hold tokens other than comments and
\* newlines.
RECURSIVE TokenUnits(_, _)
TokenUnits(units, i) ==
    IF i > Len(units) THEN <<>>
    ELSE (IF units[i].kind \in {"comment", "blank", "annotation", "braced",
                                "multiline"}
          THEN <<>> ELSE <<units[i]>>)
            \o TokenUnits(units, i + 1)

\* The unit is the text of this statement, every token of it.
StatementOfUnit(unit, head) ==
    /\ unit.kind \in {"assign", "metadata", "section"}
    /\ head = (CASE unit.kind = "assign"   -> StmtHead("Assign", unit.key)
                 [] unit.kind = "metadata" -> StmtHead("Metadata", unit.key)
                 [] unit.kind = "section"  -> StmtHead("Section", unit.key))

\* Every unit with tokens is, in order, one statement of the program.
EveryTokenInAStatement ==
    /\ Len(ProgramHeads) = Len(TokenUnits(Units, 1))
    /\ \A i \in 1..Len(ProgramHeads) :
          StatementOfUnit(TokenUnits(Units, 1)[i], ProgramHeads[i])

\* C27: the parser skips no input silently: when ParseProgram finishes
\* without a diagnostic, every token of the input other than comments and
\* newlines is part of a statement of Program.Statements.
C27_NoSilentSkip ==
    (ParseDone /\ parser.errors = <<>>) => EveryTokenInAStatement

\* One iteration of the statement loop that began on a token other than a
\* newline and added no statement has recorded a diagnostic.
SkipIsDiagnosed ==
    (/\ call.op = "ParseProgram"
     /\ ~parser.done
     /\ parser.curToken.Type \notin {"EOF", "NEWLINE"}
     /\ parser'.program.Statements = parser.program.Statements)
        => Len(parser'.errors) > Len(parser.errors)

\* The same as a property of each iteration.
EverySkipDiagnosed == [][SkipIsDiagnosed]_vars

\* The same for sources of well-formed statements whose annotations have
\* plain values: it holds.
NoSilentSkipOnWellFormed ==
    (/\ ParseDone
     /\ WellFormed(Units)
     /\ UnitsOfKind(Units, {"braced", "multiline"}, 1) = <<>>)
        => (parser.errors = <<>> /\ EveryTokenInAStatement)

\* A source of nothing but a string on its own line was parsed into an empty
\* program without a diagnostic.
StrayStringDropped ==
    /\ ParseDone
    /\ Units = <<StrayUnit>>
    /\ parser.errors = <<>>
    /\ parser.program.Statements = <<>>

-----------------------------------------------------------------------------
(* What a parse error inside a logic block leaves of the rest of the file. *)

\* The malformed logic blocks are the source's only units that are not
\* well-formed statements, comments or plain annotations.
OnlyBlockErrors(units) ==
    /\ \E i \in 1..Len(units) : units[i] \in MalformedBlock
    /\ \A i \in 1..Len(units) :
          \/ units[i] \in MalformedBlock
          \/ units[i].kind \in {"assign", "metadata", "section", "comment",
                                "blank", "annotation"}

\* The name of the last section header before unit i ("" if none).
UnitSectionBefore(units, i) ==
    LET headers == {j \in 1..(i - 1) : units[j].kind = "section"}
    IN  IF headers = {} THEN ""
        ELSE units[CHOOSE j \in headers : \A k \in headers : k <= j].key

\* The keys the source's assignments compile to when the malformed blocks
\* leave the rest of the file alone.
UnitKeys(units) ==
    {IF UnitSectionBefore(units, i) = "" THEN units[i].key
     ELSE UnitSectionBefore(units, i) \o "." \o units[i].key
     : i \in {j \in 1..Len(units) : units[j].kind = "assign"}}

\* C28: a parse error inside a logic block leaves the statements after the
\* block as they are without it: no case line of the block becomes a
\* top-level statement (no section header of a case's condition), the
\* failed block is no assignment of Program.Statements, and every
\* assignment of the file compiles to the key it has without the error.
C28_BlockErrorLeavesRestAlone ==
    (Parsed2 /\ OnlyBlockErrors(Units)) =>
        /\ ProgramHeads = SourceHeads(Units, 1)
        /\ \A i \in 1..Len(parser.program.Statements) :
              parser.program.Statements[i].t = "Assign"
                  => parser.program.Statements[i].Name # "bad"
        /\ call.op \in {"Compile", "Get"} => TranslationKeys(rt.Data) = UnitKeys(Units)

\* After a block whose first case lacks its arrow, the case line
\* [other] => "y" was parsed as the section header [other], the block is a
\* statement, and the assignment after it has the key other.greeting.
CaseLineBecameSection ==
    /\ call.op = "Compile"
    /\ Len(Units) = 2
    /\ Units[1].text = "bad(n) {\n  [one] \"x\"\n  [other] => \"y\"\n}\n"
    /\ Units[2].key = "greeting"
    /\ ProgramHeads = <<StmtHead("Assign", "bad"), StmtHead("Section", "other"),
                        StmtHead("Assign", "greeting")>>
    /\ TranslationKeys(rt.Data) = {"bad", "other.greeting"}

-----------------------------------------------------------------------------
(* Logic blocks with cases for 0, resolved for values that are no numbers. *)

\* An exact case and a range for 0, a range without it, the category Polish
\* gives 0, a keyword and the default.
ZeroCasePool ==
    {LiteralCase("0", "none"),
     RangeCase(0, 3, "a few"),
     RangeCase(1, 3, "some"),
     LiteralCase("many", "lots"),
     LiteralCase("male", "Mr."),
     LiteralCase("other", "rest")}

ZeroCaseLists ==
    UNION {{l \in [1..k -> ZeroCasePool] : \A i, j \in 1..k : i # j => l[i] # l[j]}
             : k \in 1..MaxCases}

\* Values that are neither integers nor floats, alone and as the control
\* variable of a raw map.
NonNumericArgs ==
    {<<StrV("x")>>, <<StrV("male")>>, <<BoolV(TRUE)>>, <<Nil>>,
     <<MapV([n |-> StrV("x")])>>, <<MapV([n |-> BoolV(FALSE)])>>}

InitResolve ==
    /\ \E lang \in {"", "pl"}, cases \in ZeroCaseLists :
          src = BlockSource(lang, "n", cases)
    /\ rt = NewRuntime(compileProgram(src.prog))
    /\ call = NoCall
    /\ resolved = ""
    /\ ret = ""
    /\ peer = NoRuntime
    /\ lexer = NoLexer
    /\ parser = NoParser
    /\ manager = NoManager
    /\ procs = NoProcs

NextResolve ==
    \/ \E args \in NonNumericArgs : GetCall(MsgKey, args)
    \/ Return

SpecResolve == InitResolve /\ [][NextResolve]_vars

\* The value the block matches: the argument, or the control variable's
\* value in a raw map.
MatchedValue == ValToMatch(Block, Arg1)

\* Get was called on the block with a value to match that is no number and
\* names no case of the block.
GotNonNumeric ==
    /\ GotBlock
    /\ MatchedValue.t \notin {"int", "int64", "float64"}
    /\ ~(MatchedValue.t = "string" /\ HasLiteralCase(MatchedValue.s))

\* The template of the `other` case, empty without one.
OtherTemplate == IF HasLiteralCase("other") THEN LiteralTemplate("other") ELSE ""

\* C29: a value to match that is not numeric (a string that names no case,
\* or any other value that is neither an integer nor a float) selects no
\* exact-integer case and no range: ResolveWithLang gives the `other` case
\* when the block has one and the empty template otherwise.
C29_NonNumericTakesOther == GotNonNumeric => resolved = OtherTemplate

\* The same for blocks with no case for 0: no exact case "0", no range that
\* holds 0 and no case of the plural category of 0. It holds.
NonNumericTakesOtherWithoutZeroCase ==
    (/\ GotNonNumeric
     /\ ~HasLiteralCase("0")
     /\ RangesWith(0) = {}
     /\ ~HasLiteralCase(ResolvePluralCategory(rt.Language, 0)))
        => resolved = OtherTemplate

\* The string "x" selected the range 0..3 of a block that has an `other`
\* case.
NonNumericTookRange ==
    /\ GotNonNumeric
    /\ Arg1 = StrV("x")
    /\ HasLiteralCase("other")
    /\ ~HasLiteralCase("0")
    /\ resolved = "a few"

-----------------------------------------------------------------------------
(* The multi-file compile command: workers take files from fileChan and    *)
(* send one result per file on results; the main goroutine feeds the       *)
(* files, closes fileChan and then merges the results in the order they    *)
(* arrive; a last goroutine closes results when every worker is done.      *)
(* src.files holds the files, procs the channels and the goroutines.       *)

\* Most files of one run.
MaxFiles == 3

\* The workers (-j).
NumWorkers == 2

\* A file: its namespace ("" without -namespace), its program, and whether
\* the parser reports syntax errors for it.
SourceFile(namespace, statements, bad) ==
    [namespace |-> namespace, prog |-> Program(statements, EmptyMap), bad |-> bad]

FilePool ==
    {SourceFile("", <<Metadata("lang", "en"), AssignString("title", "Hello")>>, FALSE),
     SourceFile("", <<Metadata("lang", "pl"), AssignString("title", "Czesc")>>, FALSE),
     SourceFile("app", <<Metadata("lang", "pl"), AssignString("title", "T")>>, FALSE),
     SourceFile("web", <<AssignString("ok", "OK")>>, FALSE),
     SourceFile("web", <<>>, TRUE)}

FileLists == UNION {[1..k -> FilePool] : k \in 1..MaxFiles}

\* What a worker sends for a file.
compileResult(file, f) ==
    IF f.bad THEN [file |-> file, namespace |-> f.namespace, err |-> TRUE,
                   data |-> EmptyMap]
    ELSE [file |-> file, namespace |-> f.namespace, err |-> FALSE,
          data |-> compileProgram(f.prog)]

\* The key a result's key is merged under.
mergedKey(namespace, k) ==
    IF namespace # "" /\ ~HasPrefix(k, "__") THEN namespace \o "." \o k ELSE k

\* for k, v := range res.data { ... merged[key] = v }
mergeResult(merged, res) ==
    IF res.err THEN merged
    ELSE [key \in DOMAIN merged \cup {mergedKey(res.namespace, k) : k \in DOMAIN res.data} |->
            IF \E k \in DOMAIN res.data : mergedKey(res.namespace, k) = key
            THEN res.data[CHOOSE k \in DOMAIN res.data :
                              mergedKey(res.namespace, k) = key]
            ELSE merged[key]]

InitDriver ==
    /\ \E files \in FileLists :
          src = [kind |-> "files", parts |-> <<>>, prog |-> Program(<<>>, EmptyMap),
                 files |-> files]
    /\ procs = [fed |-> 0, fileChan |-> <<>>, fileChanClosed |-> FALSE,
                workers |-> [w \in 1..NumWorkers |-> [pc |-> "range", file |-> 0]],
                results |-> <<>>, resultsClosed |-> FALSE,
                received |-> 0, hasErrors |-> FALSE, merged |-> EmptyMap,
                done |-> FALSE]
    /\ manager = NoManager
    /\ rt = NoRuntime
    /\ peer = NoRuntime
    /\ lexer = NoLexer
    /\ parser = NoParser
    /\ call = NoCall
    /\ resolved = ""
    /\ ret = ""

DriverFrame == <<src, manager, rt, peer, lexer, parser, call, resolved, ret>>

\* main: fileChan <- f
FeedFile ==
    /\ procs.fed < Len(src.files)
    /\ procs' = [procs EXCEPT !.fed = @ + 1, !.fileChan = Append(@, procs.fed + 1)]
    /\ UNCHANGED DriverFrame

\* main: close(fileChan)
CloseFileChan ==
    /\ procs.fed = Len(src.files)
    /\ ~procs.fileChanClosed
    /\ procs' = [procs EXCEPT !.fileChanClosed = TRUE]
    /\ UNCHANGED DriverFrame

\* worker: for file := range fileChan
WorkerTakes(w) ==
    /\ procs.workers[w].pc = "range"
    /\ procs.fileChan # <<>>
    /\ procs' = [procs EXCEPT !.fileChan = Tail(@),
                              !.workers[w] = [pc |-> "compile",
                                              file |-> Head(procs.fileChan)]]
    /\ UNCHANGED DriverFrame

\* worker: the file is read, parsed and compiled; results <- res
WorkerSends(w) ==
    /\ procs.workers[w].pc = "compile"
    /\ procs' = [procs EXCEPT
                   !.results = Append(@, compileResult(procs.workers[w].file,
                                             src.files[procs.workers[w].file])),
                   !.workers[w] = [pc |-> "range", file |-> 0]]
    /\ UNCHANGED DriverFrame

\* worker: fileChan is closed and empty; wg.Done()
WorkerDone(w) ==
    /\ procs.workers[w].pc = "range"
    /\ procs.fileChan = <<>>
    /\ procs.fileChanClosed
    /\ procs' = [procs EXCEPT !.workers[w].pc = "done"]
    /\ UNCHANGED DriverFrame

\* go func() { wg.Wait(); close(results) }()
CloseResults ==
    /\ procs.fileChanClosed
    /\ ~procs.resultsClosed
    /\ \A w \in 1..NumWorkers : procs.workers[w].pc = "done"
    /\ procs' = [procs EXCEPT !.resultsClosed = TRUE]
    /\ UNCHANGED DriverFrame

\* main: for res := range results, one result merged.
CollectResult ==
    /\ procs.fileChanClosed
    /\ procs.results # <<>>
    /\ procs' = [procs EXCEPT
                   !.results = Tail(@),
                   !.received = @ + 1,
                   !.hasErrors = @ \/ Head(procs.results).err,
                   !.merged = mergeResult(@, Head(procs.results))]
    /\ UNCHANGED DriverFrame

\* main: results is closed and empty; the loop ends.
CollectEnds ==
    /\ procs.fileChanClosed
    /\ procs.results = <<>>
    /\ procs.resultsClosed
    /\ ~procs.done
    /\ procs' = [procs EXCEPT !.done = TRUE]
    /\ UNCHANGED DriverFrame

NextDriver ==
    \/ FeedFile
    \/ CloseFileChan
    \/ \E w \in 1..NumWorkers : WorkerTakes(w)
    \/ \E w \in 1..NumWorkers : WorkerSends(w)
    \/ \E w \in 1..NumWorkers : WorkerDone(w)
    \/ CloseResults
    \/ CollectResult
    \/ CollectEnds

\* Every goroutine runs on when it can.
SpecDriver == InitDriver /\ [][NextDriver]_vars /\ WF_vars(NextDriver)

\* The results of the first n files merged in the order of the files.
RECURSIVE mergedInFileOrder(_, _)
mergedInFileOrder(files, n) ==
    IF n = 0 THEN EmptyMap
    ELSE mergeResult(mergedInFileOrder(files, n - 1), compileResult(n, files[n]))

\* The merged table at the end is the one of the files, whatever the order
\* the results arrived in.
MergedTableIsOneTable ==
    procs.done => procs.merged = mergedInFileOrder(src.files, Len(src.files))

\* The collector has taken one result per file when it ends.
OneResultPerFile == procs.done => procs.received = Len(src.files)

\* The merged map is written by the collector's merge step only.
OnlyCollectorWrites ==
    procs'.merged # procs.merged => procs'.received = procs.received + 1

\* C30: for fixed input files the merged table of the compile command is
\* the same under every scheduling of the workers and the collector
\* (reserved entries included), only the collector writes the merged map,
\* and the collector ends after receiving exactly one result per file.
C30_MergeIsDeterministic ==
    /\ []MergedTableIsOneTable
    /\ []OneResultPerFile
    /\ [][OnlyCollectorWrites]_vars
    /\ <>procs.done

\* The keys a file is merged under.
fileKeys(f) ==
    {mergedKey(f.namespace, k) : k \in DOMAIN compileResult(0, f).data}

\* No two files of the run are merged under a common key.
DisjointKeys ==
    \A i, j \in 1..Len(src.files) :
        i # j => fileKeys(src.files[i]) \cap fileKeys(src.files[j]) = {}

\* The same for runs whose files have no key in common: it holds.
MergeIsDeterministicOnDisjointKeys ==
    /\ [](DisjointKeys => MergedTableIsOneTable)
    /\ []OneResultPerFile
    /\ [][OnlyCollectorWrites]_vars
    /\ <>procs.done

\* Two files with metadata were merged with the __meta entry of the first:
\* the second file's result arrived first.
MetaOfFirstArrival ==
    /\ procs.done
    /\ Len(src.files) = 2
    /\ src.files[1].namespace = "" /\ src.files[2].namespace = "app"
    /\ procs.merged["__meta"] = StrMapVal([lang |-> "en"])

====
